---- MODULE Spec2Model ----
EXTENDS Integers, Sequences, FiniteSets, TLC

(***************************************************************************)
(* A model of app/sync.py (the streaming reconciler run_sync_streaming and *)
(* its helpers) as a state machine whose steps are the code segments       *)
(* between two external calls or yields of the generator.                  *)
(***************************************************************************)

(***************************************************************************)
(* Python float arithmetic (IEEE-754 binary64, round-half-to-even), as far *)
(* as the percent expressions of run_sync_streaming need it:               *)
(*     int(a / b * c)   with a, b, c positive integers.                    *)
(* A positive double is [m |-> <<b1..b53>>, e |-> k]: b1 = 1 and the value *)
(* is the sum of b_j * 2^(k - j + 1).                                      *)
(***************************************************************************)
MantissaBits == 53

\* Bits are produced and consumed in limbs of LimbBits bits.
LimbBits == 9

LimbBase == 512

Pow2 == <<1, 2, 4, 8, 16, 32, 64, 128, 256, 512>>

Max(a, b) == IF a >= b THEN a ELSE b

Min(a, b) == IF a <= b THEN a ELSE b

\* The LimbBits bits of a limb, most significant first.
LimbToBits(v) == [j \in 1..LimbBits |-> (v \div Pow2[LimbBits - j + 1]) % 2]

RECURSIVE IntBits(_)
IntBits(n) == IF n = 0 THEN << >> ELSE Append(IntBits(n \div 2), n % 2)

RECURSIVE BitsToInt(_)
BitsToInt(bs) ==
    IF bs = << >> THEN 0
    ELSE 2 * BitsToInt(SubSeq(bs, 1, Len(bs) - 1)) + bs[Len(bs)]

\* The first n limbs of the binary expansion of r / d (0 <= r < d), and the
\* remainder left after them.
RECURSIVE FracLimbs(_, _, _)
FracLimbs(r, d, n) ==
    IF n = 0 THEN [bits |-> << >>, rem |-> r]
    ELSE LET rest == FracLimbs((r * LimbBase) % d, d, n - 1)
         IN  [bits |-> LimbToBits((r * LimbBase) \div d) \o rest.bits, rem |-> rest.rem]

\* The first n bits of the binary expansion of r / d, and whether a nonzero
\* tail follows them.
FracBits(r, d, n) ==
    LET k == (n + LimbBits - 1) \div LimbBits
        fl == FracLimbs(r, d, k)
    IN  [bits |-> SubSeq(fl.bits, 1, n),
         inexact |-> fl.rem # 0 \/ \E j \in (n + 1)..Len(fl.bits) : fl.bits[j] = 1]

RECURSIVE LeadZeros(_, _)
LeadZeros(r, d) == IF 2 * r >= d THEN 0 ELSE 1 + LeadZeros(2 * r, d)

\* bs + 1 for a bit string that is not all ones.
IncBits(bs) ==
    LET k == CHOOSE j \in 1..Len(bs) : bs[j] = 0 /\ \A i \in (j + 1)..Len(bs) : bs[i] = 1
    IN  [j \in 1..Len(bs) |-> IF j < k THEN bs[j] ELSE IF j = k THEN 1 ELSE 0]

AllOnes(bs) == \A j \in 1..Len(bs) : bs[j] = 1

\* Round a bit string (most significant first, leading 1) whose leading bit
\* has exponent e, followed by an inexact tail flag, to MantissaBits bits.
RoundHalfEven(bs, e, sticky) ==
    IF Len(bs) <= MantissaBits
    THEN [m |-> bs \o [j \in 1..(MantissaBits - Len(bs)) |-> 0], e |-> e]
    ELSE LET keep == SubSeq(bs, 1, MantissaBits)
             guard == bs[MantissaBits + 1]
             tail == sticky \/ \E j \in (MantissaBits + 2)..Len(bs) : bs[j] = 1
             up == guard = 1 /\ (tail \/ keep[MantissaBits] = 1)
         IN  IF ~up THEN [m |-> keep, e |-> e]
             ELSE IF AllOnes(keep)
                  THEN [m |-> <<1>> \o [j \in 1..(MantissaBits - 1) |-> 0], e |-> e + 1]
                  ELSE [m |-> IncBits(keep), e |-> e]

\* a / b for integers a >= 1, b >= 1 (Python true division).
FDiv(a, b) ==
    LET ip == a \div b
        r0 == a % b
    IN  IF ip > 0
        THEN LET hi == IntBits(ip)
                 fr == FracBits(r0, b, MantissaBits + 1 - Len(hi))
             IN  RoundHalfEven(hi \o fr.bits, Len(hi) - 1, fr.inexact)
        ELSE LET z == LeadZeros(r0, b)
                 fr == FracBits(r0, b, z + MantissaBits + 1)
             IN  RoundHalfEven(SubSeq(fr.bits, z + 1, z + MantissaBits + 1),
                               -(z + 1), fr.inexact)

\* The limbs (least significant first) of the bit string bs.
BitsToLimbs(bs) ==
    LET n == (Len(bs) + LimbBits - 1) \div LimbBits
        pad == [j \in 1..(n * LimbBits - Len(bs)) |-> 0] \o bs
    IN  [k \in 1..n |->
            LET base == (n - k) * LimbBits
            IN  pad[base + 1] * 256 + pad[base + 2] * 128 + pad[base + 3] * 64
                + pad[base + 4] * 32 + pad[base + 5] * 16 + pad[base + 6] * 8
                + pad[base + 7] * 4 + pad[base + 8] * 2 + pad[base + 9]]

\* Limbs (least significant first) times a small integer; the result's bits,
\* most significant first, leading zeros kept.
RECURSIVE MulLimbs(_, _, _)
MulLimbs(ls, c, carry) ==
    IF ls = << >> THEN IntBits(carry)
    ELSE LET v == ls[1] * c + carry
         IN  MulLimbs(Tail(ls), c, v \div LimbBase) \o LimbToBits(v % LimbBase)

StripZeros(bs) ==
    IF \A j \in 1..Len(bs) : bs[j] = 0 THEN << >>
    ELSE LET k == CHOOSE j \in 1..Len(bs) : bs[j] = 1 /\ \A i \in 1..(j - 1) : bs[i] = 0
         IN  SubSeq(bs, k, Len(bs))

\* x * c for a double x > 0 and an integer c >= 1 (c converts exactly).
FMulInt(x, c) ==
    LET prod == StripZeros(MulLimbs(BitsToLimbs(x.m), c, 0))
    IN  RoundHalfEven(prod, x.e + (Len(prod) - MantissaBits), FALSE)

\* int(x): truncation toward zero of a double x > 0 below 2^31.
FTrunc(x) == IF x.e < 0 THEN 0 ELSE BitsToInt(SubSeq(x.m, 1, x.e + 1))

\* int(a / b * c) as Python evaluates it.
PyIntScale(a, b, c) == IF a = 0 THEN 0 ELSE FTrunc(FMulInt(FDiv(a, b), c))


(***************************************************************************)
(* Module constants of app/sync.py.                                        *)
(***************************************************************************)
BATCH_SIZE == 50

MAX_CONCURRENT_SEARCHES == 3

\* limit=5 of tidal_session.search and the [:5] slice of its results.
SEARCH_LIMIT == 5

\* batch_size of the three destination-index loading loops.
batch_size == 100

Tasks == <<"playlists", "favorites", "albums", "artists">>

TaskSet == {"playlists", "favorites", "albums", "artists"}

ItemTasks == {"favorites", "albums", "artists"}

Label(t) ==
    CASE t = "playlists" -> "Playlists"
      [] t = "favorites" -> "Liked Songs"
      [] t = "albums" -> "Albums"
      [] t = "artists" -> "Artists"

\* The item_type argument each collection passes to count_spotify_items.
ItemType(t) == IF t = "favorites" THEN "tracks" ELSE t

\* The factor of the item-progress percent: 75 for favorites, 80 otherwise.
Scale(t) == IF t = "favorites" THEN 75 ELSE 80

None == -1

(***************************************************************************)
(* Exceptions.  An exception is [cls, http_status, msg]; str(e) is a       *)
(* string of the table StrChars, which gives its characters.               *)
(***************************************************************************)
ExcApi == [cls |-> "Exception", http_status |-> 0, msg |-> "API Error"]

ExcTokenExpired == [cls |-> "Exception", http_status |-> 0, msg |-> "Token Expired"]

ExcClient401 == [cls |-> "Exception", http_status |-> 0, msg |-> "401 Client Error"]

ExcSpotify401 ==
    [cls |-> "SpotifyException", http_status |-> 401, msg |-> "http status: 401"]

ExcSpotify429 ==
    [cls |-> "SpotifyException", http_status |-> 429, msg |-> "http status: 429"]

ExcBadToken == [cls |-> "Exception", http_status |-> 0, msg |-> "Invalid access token"]

AllExcs == {ExcApi, ExcTokenExpired, ExcClient401, ExcSpotify401, ExcSpotify429, ExcBadToken}

StrChars(m) ==
    CASE m = "API Error" -> <<"A", "P", "I", " ", "E", "r", "r", "o", "r">>
      [] m = "Token Expired" ->
            <<"T", "o", "k", "e", "n", " ", "E", "x", "p", "i", "r", "e", "d">>
      [] m = "401 Client Error" ->
            <<"4", "0", "1", " ", "C", "l", "i", "e", "n", "t", " ", "E", "r", "r", "o", "r">>
      [] m = "http status: 401" ->
            <<"h", "t", "t", "p", " ", "s", "t", "a", "t", "u", "s", ":", " ", "4", "0", "1">>
      [] m = "http status: 429" ->
            <<"h", "t", "t", "p", " ", "s", "t", "a", "t", "u", "s", ":", " ", "4", "2", "9">>
      [] m = "Invalid access token" ->
            <<"I", "n", "v", "a", "l", "i", "d", " ", "a", "c", "c", "e", "s", "s", " ",
              "t", "o", "k", "e", "n">>

\* str(e)
Str(e) == e.msg

\* str.lower() on one character (the upper-case letters the messages use).
LowerChar(c) ==
    CASE c = "A" -> "a" [] c = "C" -> "c" [] c = "E" -> "e" [] c = "I" -> "i"
      [] c = "P" -> "p" [] c = "T" -> "t" [] OTHER -> c

Lower(cs) == [j \in 1..Len(cs) |-> LowerChar(cs[j])]

\* needle in hay (Python substring test).
Contains(hay, needle) ==
    \E k \in 0..(Len(hay) - Len(needle)) :
        \A j \in 1..Len(needle) : hay[k + j] = needle[j]

is_auth_error(e) ==
    LET error_str == Lower(StrChars(Str(e)))
    IN  \/ (e.cls = "SpotifyException" /\ e.http_status = 401)
        \/ Contains(error_str, <<"4", "0", "1">>)
        \/ Contains(error_str, <<"t", "o", "k", "e", "n", " ", "e", "x", "p", "i", "r", "e", "d">>)
        \/ Contains(error_str, <<"a", "c", "c", "e", "s", "s", " ", "t", "o", "k", "e", "n">>)

(***************************************************************************)
(* The two services.  A source item is a small integer k; what the code    *)
(* reads of it is its name, its first artist and what the destination's    *)
(* search returns for it.  A search result is [id, match, isrc]: match is  *)
(* the verdict of the comparison the code applies to that candidate (the   *)
(* normalized-name equality, or check_album_similarity).                   *)
(***************************************************************************)
Kinds == 1..6

ItemName(k) == <<"name", k>>

\* track['artists'][0]['name'] if track.get('artists') else ''
FirstArtist(k) == IF k = 4 THEN << >> ELSE <<"artist", k>>

\* A search result: match is the outcome of the comparison the code makes
\* (the normalized names for tracks); isrc says that the result's ISRC is the
\* source track's, which the code neither projects nor compares.
Cand(id, m) == [id |-> id, match |-> m, isrc |-> FALSE]

\* A result with another name and the ISRC of the source track.
CandIsrc(id) == [id |-> id, match |-> FALSE, isrc |-> TRUE]

\* The destination catalog's ranked answer to the query built for item k.
CatalogResults(k) ==
    CASE k = 1 -> <<CandIsrc(900)>>
      [] k = 2 -> <<Cand(1, TRUE)>>
      [] k = 3 -> <<Cand(900, FALSE), Cand(1, TRUE), Cand(500, TRUE)>>
      [] k = 4 -> <<Cand(500, TRUE)>>
      [] k = 5 -> <<Cand(900, FALSE), Cand(901, FALSE), Cand(902, FALSE),
                    Cand(903, FALSE), Cand(904, FALSE), Cand(501, TRUE)>>
      [] k = 6 -> <<Cand(101, TRUE)>>
      [] OTHER -> << >>

Take(s, n) == SubSeq(s, 1, Min(n, Len(s)))

\* tidal_session.search(query, models=[...], limit=5) and the [:5] slice.
SearchResults(k) == Take(Take(CatalogResults(k), SEARCH_LIMIT), SEARCH_LIMIT)

\* NotFoundStr without the artist.
NotFoundStrTitleOnly(t, k) == ItemName(k)

\* f"{artist_name} - {name}", and the bare name for an artist.
NotFoundStr(t, k) ==
    IF t = "artists" THEN ItemName(k) ELSE <<FirstArtist(k), " - ", ItemName(k)>>

Range(s) == {s[j] : j \in 1..Len(s)}

\* Put that binds the dict anew: d = {key: value}
PutFresh(d, k, v) == [x \in {k} |-> v]

\* dict[key] = value
Put(d, k, v) == [x \in DOMAIN d \cup {k} |-> IF x = k THEN v ELSE d[x]]

VARIABLES
    sel,        \* the four sync flags of the call
    env,        \* the services: source library, and what calls may answer
    tidal,      \* the destination's favorites of each collection, in listing order
    nf_file,    \* the lines of the file NOT_FOUND_FILE
    faults,     \* how many calls have failed so far
    run,        \* the number of the run in progress
    first,      \* the destination as the first run left it
    log,        \* what became of each source item, and the exceptions swallowed
    spotify,    \* the source client of create_spotify_client and its call under way
    loads,      \* the batch fetches of the index loading that returned
    web,        \* the caller's cookies, the pending Tidal authorizations, the last response
    tidal_semaphore, \* _tidal_semaphore: None, or the permits the semaphore has left
    tasks,      \* the coroutines that asyncio.gather is running for the batch
    pc,         \* where the generator stands
    ti,         \* which of the four blocks it has reached (5: past them)
    events,     \* the events yielded so far
    result,     \* the dict result
    total,      \* total, total_tracks, total_albums, total_artists
    i,          \* the playlists loop's index
    existing,   \* existing_tidal_ids, tidal_favorite_albums, tidal_favorite_artists
    offset,     \* the index loading loop's offset
    added, not_found, processed, batch,
    rd,         \* the source iterator: page reached, items left of it, last_id
    item,       \* the item of the current iteration
    caught      \* the exceptions the blocks' handlers have caught, with their block

world == <<sel, env, run, first, log, spotify, web, loads, tidal_semaphore, tasks>>

ctx == <<sel, env, run, first, log, spotify, web, loads, tidal_semaphore, tasks, caught>>

frame == <<sel, env, run, first, spotify, web, loads, tidal_semaphore, tasks, caught>>

locals == <<total, i, existing, offset, added, not_found, processed, batch, rd, item>>

vars == <<sel, env, tidal, nf_file, faults, run, first, log, spotify, web, loads, tidal_semaphore, tasks,
          pc, ti, events, result,
          total, i, existing, offset, added, not_found, processed, batch, rd, item,
          caught>>

cur == Tasks[ti]

(***************************************************************************)
(* Events: the decoded "data" of each yielded dict.                        *)
(***************************************************************************)
EvStart(t) == [type |-> "start", task |-> t, label |-> Label(t)]

EvProgress(t, pct, what) == [type |-> "progress", task |-> t, percent |-> pct, item |-> what]

EvPlaylistProgress(n, tot, pct, name) ==
    [type |-> "progress", task |-> "playlists", current |-> n, total |-> tot,
     percent |-> pct, item |-> name]

EvDone(t, res) == [type |-> "done", task |-> t, result |-> res]

EvError(t, msg) == [type |-> "error", task |-> t, error |-> msg]

EvAuthExpired == [type |-> "auth_expired", service |-> "spotify"]

EvComplete(res) == [type |-> "complete", result |-> res]

Emit(e) == events' = Append(events, e)

CanFail == faults < env.maxFaults

NoFavorites == [t \in ItemTasks |-> << >>]

RdInit == [page |-> 0, buf |-> << >>, last_id |-> None]

\* No response yet.
NoResponse == [path |-> "", status |-> 0, location |-> "", detail |-> ""]

\* A caller without cookies, an empty pending_tidal_auth, no request made,
\* no event sent.
NoWeb ==
    [spotify_session |-> "none", tidal_session |-> "none", tidal_auth_id |-> None,
     pending |-> << >>, auths |-> 0, at |-> "idle", resp |-> NoResponse, sent |-> << >>]

\* No exception.
NoExc == [cls |-> "none", http_status |-> 0, msg |-> ""]

\* create_spotify_client(access_token, refresh_token): a RefreshableSpotify
\* when there is a refresh token, else the plain client; no call under way.
\* creds: SPOTIFY_CLIENT_ID and SPOTIFY_CLIENT_SECRET are set.
create_spotify_client(access_token, refresh_token, creds) ==
    [refreshable |-> refresh_token # None,
     access_token |-> access_token, refresh_token |-> refresh_token, creds |-> creds,
     at |-> "idle", n |-> 0, calls |-> 0, refreshes |-> 0, refreshed |-> FALSE,
     original_error |-> NoExc, raised |-> NoExc]

\* The state in which a call of run_sync_streaming starts, but for the
\* source client.
InitStream(sels, envs, tidals) ==
    /\ sel \in sels
    /\ env \in envs
    /\ tidal \in tidals
    /\ sel["playlists"] \/ env.playlists = << >>
    /\ \A t \in ItemTasks : sel[t] \/ (env.lib[t] = << >> /\ tidal[t] = << >>)
    /\ nf_file = << >>
    /\ faults = 0
    /\ run = 1
    /\ first = NoFavorites
    /\ log = << >>
    /\ loads = << >>
    /\ web = NoWeb
    /\ tidal_semaphore = None
    /\ tasks = << >>
    /\ pc = "select"
    /\ ti = 1
    /\ events = << >>
    /\ result = << >>
    /\ total = 0
    /\ i = 0
    /\ existing = {}
    /\ offset = 0
    /\ added = 0
    /\ not_found = << >>
    /\ processed = 0
    /\ batch = << >>
    /\ rd = RdInit
    /\ item = 0
    /\ caught = << >>

\* The state in which a call of run_sync_streaming starts.
InitRun(sels, envs, tidals) ==
    /\ spotify = create_spotify_client(0, None, FALSE)
    /\ InitStream(sels, envs, tidals)

(***************************************************************************)
(* run_sync_streaming: the frame of the four blocks.                       *)
(***************************************************************************)

\* "if sync_playlists:" ... "if do_sync_artists:" with the flag off.
SkipTask ==
    /\ pc = "select" /\ ti <= 4 /\ ~sel[cur]
    /\ ti' = ti + 1
    /\ UNCHANGED <<ctx, tidal, nf_file, faults, pc, events, result, locals>>

\* StartTask without the test of the block's flag.
StartTaskAnyFlag ==
    /\ pc = "select" /\ ti <= 4
    /\ Emit(EvStart(cur))
    /\ pc' = IF cur = "playlists" THEN "pl_fetch" ELSE "count_msg"
    /\ UNCHANGED <<ctx, tidal, nf_file, faults, ti, result, locals>>

\* The flag is on: the block's start event.
StartTask ==
    /\ pc = "select" /\ ti <= 4 /\ sel[cur]
    /\ Emit(EvStart(cur))
    /\ pc' = IF cur = "playlists" THEN "pl_fetch" ELSE "count_msg"
    /\ UNCHANGED <<ctx, tidal, nf_file, faults, ti, result, locals>>

\* ExceptHandler with the error event left out.
ExceptHandlerNoErrorEvent(e) ==
    IF is_auth_error(e)
    THEN /\ Emit(EvAuthExpired)
         /\ pc' = "returned"
         /\ UNCHANGED <<result, ti>>
    ELSE /\ result' = Put(result, cur, [error |-> Str(e)])
         /\ pc' = "select"
         /\ ti' = ti + 1
         /\ UNCHANGED events

\* ExceptHandler without the return after auth_expired.
ExceptHandlerNoReturn(e) ==
    IF is_auth_error(e)
    THEN /\ Emit(EvAuthExpired)
         /\ pc' = "select"
         /\ ti' = ti + 1
         /\ UNCHANGED result
    ELSE /\ result' = Put(result, cur, [error |-> Str(e)])
         /\ Emit(EvError(cur, Str(e)))
         /\ pc' = "select"
         /\ ti' = ti + 1

\* ExceptHandler without the error marker in result.
ExceptHandlerNoMarker(e) ==
    IF is_auth_error(e)
    THEN /\ Emit(EvAuthExpired)
         /\ pc' = "returned"
         /\ UNCHANGED <<result, ti>>
    ELSE /\ Emit(EvError(cur, Str(e)))
         /\ pc' = "select"
         /\ ti' = ti + 1
         /\ UNCHANGED result

\* "except Exception as e:" of the current block, entered with e.
ExceptHandler(e) ==
    IF is_auth_error(e)
    THEN /\ Emit(EvAuthExpired)
         /\ pc' = "returned"
         /\ UNCHANGED <<result, ti>>
    ELSE /\ result' = Put(result, cur, [error |-> Str(e)])
         /\ Emit(EvError(cur, Str(e)))
         /\ pc' = "select"
         /\ ti' = ti + 1

\* A call of the block raises e: control passes to the block's handler.
Raise(e) ==
    /\ faults' = faults + 1
    /\ caught' = Append(caught, [task |-> cur, e |-> e, at |-> pc])
    /\ ExceptHandler(e)
    /\ UNCHANGED <<world, tidal, nf_file, locals>>

\* A section of the report: its lines, when the list is there and not empty.
ReportSection(res, key, title) ==
    IF key \in DOMAIN res /\ "not_found" \in DOMAIN res[key] /\ res[key].not_found # << >>
    THEN << <<title, res[key].not_found>> >>
    ELSE << >>

format_not_found_report(res) ==
    LET playlist_part ==
            IF "playlist_tracks_not_found" \in DOMAIN res
               /\ res["playlist_tracks_not_found"] # << >>
            THEN << <<"PLAYLIST TRACKS", res["playlist_tracks_not_found"]>> >>
            ELSE << >>
        sections ==
            playlist_part \o ReportSection(res, "favorites", "LIKED SONGS")
            \o ReportSection(res, "albums", "ALBUMS")
            \o ReportSection(res, "artists", "ARTISTS")
    IN  IF sections = << >> THEN << <<"No items were missing", << >> >> >> ELSE sections

\* Complete that yields nothing when no block has left a result.
CompleteUnlessEmpty ==
    /\ pc = "select" /\ ti = 5
    /\ result' = Put(result, "not_found_report", format_not_found_report(result))
    /\ IF result = << >> THEN UNCHANGED events ELSE Emit(EvComplete(result'))
    /\ pc' = "returned"
    /\ UNCHANGED <<ctx, tidal, nf_file, faults, ti, locals>>

\* Past the four blocks: the report and the complete event.
Complete ==
    /\ pc = "select" /\ ti = 5
    /\ result' = Put(result, "not_found_report", format_not_found_report(result))
    /\ Emit(EvComplete(result'))
    /\ pc' = "returned"
    /\ UNCHANGED <<ctx, tidal, nf_file, faults, ti, locals>>

(***************************************************************************)
(* The playlists block.                                                    *)
(***************************************************************************)

\* get_playlists_from_spotify and get_all_playlists return.
PlaylistsFetched ==
    /\ pc = "pl_fetch"
    /\ total' = Len(env.playlists)
    /\ i' = 0
    /\ pc' = "pl_loop"
    /\ UNCHANGED <<ctx, tidal, nf_file, faults, ti, events, result,
                   existing, offset, added, not_found, processed, batch, rd, item>>

\* One of the two raises.
PlaylistsFetchFails ==
    /\ pc = "pl_fetch" /\ CanFail
    /\ \E e \in env.excs : Raise(e)

\* pct = int((i + 1) / total * 100) if total > 0 else 100
PlaylistPct(n, tot) == IF tot > 0 THEN PyIntScale(n, tot, 100) ELSE 100

\* The loop's progress event for playlist i + 1.
PlaylistProgress ==
    /\ pc = "pl_loop" /\ i < total
    /\ Emit(EvPlaylistProgress(i + 1, total, PlaylistPct(i + 1, total), env.playlists[i + 1]))
    /\ pc' = "pl_sync"
    /\ UNCHANGED <<ctx, tidal, nf_file, faults, ti, result, locals>>

\* An exception that an inner try of the current block caught and printed.
Swallowed(e) == [kind |-> "swallowed", task |-> cur, at |-> pc, e |-> e, kept |-> existing]

\* PlaylistSync with the exception of sync_playlist passed on to the handler
\* of the block.
PlaylistSyncAborts ==
    /\ pc = "pl_sync"
    /\ \E wrote \in BOOLEAN, raised \in BOOLEAN, e \in env.excs :
        /\ raised => CanFail
        /\ ~raised => e = ExcApi
        /\ wrote => env.playlistMisses
        /\ nf_file' = IF wrote THEN Append(nf_file, <<"missing of", env.playlists[i + 1]>>)
                      ELSE nf_file
        /\ faults' = IF raised THEN faults + 1 ELSE faults
        /\ log' = IF raised THEN Append(log, Swallowed(e)) ELSE log
        /\ IF raised
           THEN /\ ExceptHandler(e)
                /\ UNCHANGED i
           ELSE /\ i' = i + 1
                /\ pc' = "pl_loop"
                /\ UNCHANGED <<ti, events, result>>
    /\ UNCHANGED <<frame, tidal,
                   total, existing, offset, added, not_found, processed, batch, rd, item>>

\* sync_playlist for playlist i + 1: it may leave lines in the not-found
\* file, and it may raise, which is caught and printed.
PlaylistSync ==
    /\ pc = "pl_sync"
    /\ \E wrote \in BOOLEAN, raised \in BOOLEAN, e \in env.excs :
        /\ raised => CanFail
        /\ ~raised => e = ExcApi
        /\ wrote => env.playlistMisses
        /\ nf_file' = IF wrote THEN Append(nf_file, <<"missing of", env.playlists[i + 1]>>)
                      ELSE nf_file
        /\ faults' = IF raised THEN faults + 1 ELSE faults
        /\ log' = IF raised THEN Append(log, Swallowed(e)) ELSE log
    /\ i' = i + 1
    /\ pc' = "pl_loop"
    /\ UNCHANGED <<frame, tidal, ti, events, result,
                   total, existing, offset, added, not_found, processed, batch, rd, item>>

\* read_and_clear_not_found_file, the playlists result and the done event.
PlaylistsDone ==
    /\ pc = "pl_loop" /\ i = total
    /\ LET playlist_not_found == nf_file
           res == Put(result, "playlists",
                      [synced |-> total, not_found |-> playlist_not_found])
       IN  /\ result' = Put(res, "playlist_tracks_not_found", playlist_not_found)
           /\ Emit(EvDone("playlists", res["playlists"]))
    /\ nf_file' = << >>
    /\ pc' = "select"
    /\ ti' = ti + 1
    /\ UNCHANGED <<ctx, tidal, faults, locals>>

(***************************************************************************)
(* The favorites, albums and artists blocks.                               *)
(***************************************************************************)

\* "Counting ..." at 5 percent.
CountingProgress ==
    /\ pc = "count_msg"
    /\ Emit(EvProgress(cur, 5, <<"Counting">>))
    /\ pc' = "count"
    /\ UNCHANGED <<ctx, tidal, nf_file, faults, ti, result, locals>>

\* count_spotify_items returns the total the source reports; "Found N" at 10.
Counted ==
    /\ pc = "count"
    /\ \E c \in env.counts[cur] :
        /\ total' = c
        /\ Emit(EvProgress(cur, 10, <<"Found", c>>))
    /\ pc' = "load_msg"
    /\ UNCHANGED <<ctx, tidal, nf_file, faults, ti, result,
                   i, existing, offset, added, not_found, processed, batch, rd, item>>

\* count_spotify_items raises.
CountFails ==
    /\ pc = "count" /\ CanFail
    /\ \E e \in env.excs : Raise(e)

\* "Loading Tidal ..." at 12 percent; the index starts empty.
LoadingProgress ==
    /\ pc = "load_msg"
    /\ Emit(EvProgress(cur, 12, <<"Loading">>))
    /\ existing' = {}
    /\ offset' = 0
    /\ pc' = "load"
    /\ UNCHANGED <<ctx, tidal, nf_file, faults, ti, result,
                   total, i, added, not_found, processed, batch, rd, item>>

\* tidal_session.user.favorites.<kind>(limit=batch_size, offset=offset)
FavoritesPage(listing, limit, off) ==
    SubSeq(listing, off + 1, Min(off + limit, Len(listing)))

\* The statements between the index loop and the source loop.
BeginProcessing ==
    /\ added' = 0
    /\ not_found' = << >>
    /\ processed' = 0
    /\ batch' = << >>
    /\ rd' = RdInit
    /\ pc' = "iter"

\* LoadBatch going on after a short batch, up to an empty one.
LoadBatchUntilEmpty ==
    /\ pc = "load"
    /\ LET tidal_batch == FavoritesPage(tidal[cur], batch_size, offset)
       IN  /\ loads' = Append(loads, [task |-> cur, offset |-> offset,
                                       size |-> Len(tidal_batch)])
           /\ IF tidal_batch = << >>
              THEN /\ BeginProcessing
                   /\ UNCHANGED <<existing, offset, events>>
              ELSE /\ existing' = existing \cup Range(tidal_batch)
                   /\ offset' = offset + batch_size
                   /\ Emit(EvProgress(cur, 15, <<"Loaded", Cardinality(existing')>>))
                   /\ UNCHANGED <<pc, added, not_found, processed, batch, rd>>
    /\ UNCHANGED <<sel, env, run, first, log, spotify, web, tidal_semaphore, tasks, caught>>
    /\ UNCHANGED <<tidal, nf_file, faults, ti, result, total, i, item>>

\* One turn of "while True:" of the index loading loop.
LoadBatch ==
    /\ pc = "load"
    /\ LET tidal_batch == FavoritesPage(tidal[cur], batch_size, offset)
       IN  /\ loads' = Append(loads, [task |-> cur, offset |-> offset,
                                       size |-> Len(tidal_batch)])
           /\ IF tidal_batch = << >>
              THEN /\ BeginProcessing
                   /\ UNCHANGED <<existing, offset, events>>
              ELSE /\ existing' = existing \cup Range(tidal_batch)
                   /\ IF Len(tidal_batch) < batch_size
                      THEN /\ BeginProcessing
                           /\ UNCHANGED <<offset, events>>
                      ELSE /\ offset' = offset + batch_size
                           /\ Emit(EvProgress(cur, 15, <<"Loaded", Cardinality(existing')>>))
                           /\ UNCHANGED <<pc, added, not_found, processed, batch, rd>>
    /\ UNCHANGED <<sel, env, run, first, log, spotify, web, tidal_semaphore, tasks, caught>>
    /\ UNCHANGED <<tidal, nf_file, faults, ti, result, total, i, item>>

\* LoadFails with the exception passed on to the handler of the block.
LoadFailsAborts ==
    /\ pc = "load" /\ CanFail
    /\ faults' = faults + 1
    /\ \E e \in env.excs :
          /\ log' = Append(log, Swallowed(e))
          /\ ExceptHandler(e)
    /\ UNCHANGED <<frame, tidal, nf_file, locals>>

\* The batch fetch raises: caught, printed, and the block goes on.
LoadFails ==
    /\ pc = "load" /\ CanFail
    /\ faults' = faults + 1
    /\ \E e \in env.excs : log' = Append(log, Swallowed(e))
    /\ BeginProcessing
    /\ UNCHANGED <<frame, tidal, nf_file, ti, events, result, total, i, existing, offset, item>>

(***************************************************************************)
(* The source iterators iter_spotify_saved_tracks, iter_spotify_saved_     *)
(* albums and iter_spotify_followed_artists.  The source serves the        *)
(* collection as env.lib[t], a sequence of pages; a page's 'next' is set   *)
(* while a page follows it.  An entry 0 of a saved-tracks page is an       *)
(* entry without a track.                                                  *)
(***************************************************************************)
NumPages(t) == Max(1, Len(env.lib[t]))

PageItems(t, n) == IF n <= Len(env.lib[t]) THEN env.lib[t][n] ELSE << >>

\* PageAfter with the artists asked for without the cursor last_id.
PageAfterNoCursor(t, r) ==
    IF r.page = 0 THEN 1
    ELSE IF t # "artists" THEN r.page + 1
    ELSE 1

\* The page the source answers with: the first, the one results['next']
\* names, or for artists the one after the cursor last_id.
PageAfter(t, r) ==
    IF r.page = 0 THEN 1
    ELSE IF t # "artists" THEN r.page + 1
    ELSE IF r.last_id = None THEN 1
    ELSE 1 + (CHOOSE n \in 1..Len(env.lib[t]) : r.last_id \in Range(env.lib[t][n]))

\* "if track:" of iter_spotify_saved_tracks.
Yielded(t, items) == IF t = "favorites" THEN SelectSeq(items, LAMBDA k : k # 0) ELSE items

\* Exhausted for an iterator that never comes to its end.
Unending == FALSE

\* The iterator needs a page: before its first item, and when the page is
\* used up and 'next' is set.
NeedsPage == rd.buf = << >> /\ (rd.page = 0 \/ rd.page < NumPages(cur))

Exhausted == rd.buf = << >> /\ rd.page # 0 /\ rd.page >= NumPages(cur)

\* The page request returns.
FetchPage ==
    /\ pc = "iter" /\ NeedsPage
    /\ LET n == PageAfter(cur, rd)
           got == Yielded(cur, PageItems(cur, n))
       IN  rd' = [rd EXCEPT !.page = n, !.buf = got]
    /\ UNCHANGED <<ctx, tidal, nf_file, faults, pc, ti, events, result,
                   total, i, existing, offset, added, not_found, processed, batch, item>>

\* The page request raises: the exception leaves the async for.
FetchFails ==
    /\ pc = "iter" /\ NeedsPage /\ CanFail
    /\ \E e \in env.excs : Raise(e)

\* The next item of the iterator; for artists "last_id = artist['id']".
TakeItem ==
    rd' = [rd EXCEPT !.buf = Tail(@),
                     !.last_id = IF cur = "artists" THEN Head(rd.buf) ELSE @]

(***************************************************************************)
(* Matching one source item.  st is [existing, listing, added, not_found,  *)
(* failed, log]: the index, the destination's favorites, the two           *)
(* accumulators, the number of calls that failed, and the outcomes so far. *)
(* f names what raises for this item: "none", "query" (building the query  *)
(* string), "search" or "add".                                             *)
(***************************************************************************)
ItemFaults == {"none", "query", "search", "add"}

\* The last candidate the comparison accepts (0: none).
LastMatch(rs) ==
    IF \E j \in 1..Len(rs) : rs[j].match
    THEN CHOOSE j \in 1..Len(rs) : rs[j].match /\ \A h \in (j + 1)..Len(rs) : ~rs[h].match
    ELSE 0

\* The first candidate the comparison accepts (0: none).
FirstMatch(rs) ==
    IF \E j \in 1..Len(rs) : rs[j].match
    THEN CHOOSE j \in 1..Len(rs) : rs[j].match /\ \A h \in 1..(j - 1) : ~rs[h].match
    ELSE 0

\* favorites.add_track / add_album / add_artist on the destination.
AddFavorite(listing, id) == IF id \in Range(listing) THEN listing ELSE Append(listing, id)

\* What became of source item k of collection t: the matched candidate's id
\* (0: none seen), whether an add was issued for it, whether the id was in
\* the index when the item was handled, and whether the add succeeded.
Outcome(t, k, f, id, issued, indexed, ok) ==
    [kind |-> "item", task |-> t, k |-> k, f |-> f, id |-> id,
     issued |-> issued, indexed |-> indexed, ok |-> ok]

Logged(st, o) == [st EXCEPT !.log = Append(@, o)]

Failed(st) == [st EXCEPT !.failed = @ + 1]

\* search_tidal_track without existing_ids.add after the add.
search_tidal_track_no_record(st, k, f) ==
    LET t == "favorites"
        nf == NotFoundStr(t, k)
        rs == SearchResults(k)
        m == FirstMatch(rs)
    IN  IF f = "query"
        THEN [exc |-> TRUE, found |-> FALSE, nf_str |-> "", add_count |-> 0,
              st |-> Failed(Logged(st, Outcome(t, k, f, 0, FALSE, FALSE, FALSE)))]
        ELSE IF f = "search"
        THEN [exc |-> FALSE, found |-> FALSE, nf_str |-> nf, add_count |-> 0,
              st |-> Failed(Logged(st, Outcome(t, k, f, 0, FALSE, FALSE, FALSE)))]
        ELSE IF m = 0
        THEN [exc |-> FALSE, found |-> FALSE, nf_str |-> nf, add_count |-> 0,
              st |-> Logged(st, Outcome(t, k, f, 0, FALSE, FALSE, FALSE))]
        ELSE IF rs[m].id \notin st.existing
        THEN IF f = "add"
             THEN [exc |-> FALSE, found |-> TRUE, nf_str |-> "", add_count |-> 0,
                   st |-> Failed(Logged(st, Outcome(t, k, f, rs[m].id, TRUE, FALSE, FALSE)))]
             ELSE [exc |-> FALSE, found |-> TRUE, nf_str |-> "", add_count |-> 1,
                   st |-> [Logged(st, Outcome(t, k, f, rs[m].id, TRUE, FALSE, TRUE))
                             EXCEPT !.listing = AddFavorite(@, rs[m].id)]]
        ELSE [exc |-> FALSE, found |-> TRUE, nf_str |-> "", add_count |-> 0,
              st |-> Logged(st, Outcome(t, k, f, rs[m].id, FALSE, TRUE, FALSE))]

\* search_tidal_track: (found, not_found_str, added_count), or the exception
\* it raises (exc), with the index and the destination as it leaves them.
search_tidal_track(st, k, f) ==
    LET t == "favorites"
        nf == NotFoundStr(t, k)
        rs == SearchResults(k)
        m == FirstMatch(rs)
    IN  IF f = "query"
        THEN [exc |-> TRUE, found |-> FALSE, nf_str |-> "", add_count |-> 0,
              st |-> Failed(Logged(st, Outcome(t, k, f, 0, FALSE, FALSE, FALSE)))]
        ELSE IF f = "search"
        THEN [exc |-> FALSE, found |-> FALSE, nf_str |-> nf, add_count |-> 0,
              st |-> Failed(Logged(st, Outcome(t, k, f, 0, FALSE, FALSE, FALSE)))]
        ELSE IF m = 0
        THEN [exc |-> FALSE, found |-> FALSE, nf_str |-> nf, add_count |-> 0,
              st |-> Logged(st, Outcome(t, k, f, 0, FALSE, FALSE, FALSE))]
        ELSE IF rs[m].id \notin st.existing
        THEN IF f = "add"
             THEN [exc |-> FALSE, found |-> TRUE, nf_str |-> "", add_count |-> 0,
                   st |-> Failed(Logged(st, Outcome(t, k, f, rs[m].id, TRUE, FALSE, FALSE)))]
             ELSE [exc |-> FALSE, found |-> TRUE, nf_str |-> "", add_count |-> 1,
                   st |-> [Logged(st, Outcome(t, k, f, rs[m].id, TRUE, FALSE, TRUE))
                             EXCEPT !.existing = @ \cup {rs[m].id},
                                    !.listing = AddFavorite(@, rs[m].id)]]
        ELSE [exc |-> FALSE, found |-> TRUE, nf_str |-> "", add_count |-> 0,
              st |-> Logged(st, Outcome(t, k, f, rs[m].id, FALSE, TRUE, FALSE))]

\* The "for r in results:" loop over the gathered batch, one task after the
\* other: no task suspends between taking the semaphore and returning.  A
\* result that is an exception is skipped.
RECURSIVE GatherBatch(_, _, _)
GatherBatch(st, ks, fs) ==
    IF ks = << >> THEN st
    ELSE LET r == search_tidal_track(st, ks[1], fs[1])
             st2 == IF r.exc THEN r.st
                    ELSE [r.st EXCEPT !.added = @ + r.add_count,
                                      !.not_found = IF ~r.found /\ r.nf_str # ""
                                                    THEN Append(@, r.nf_str) ELSE @]
         IN  GatherBatch(st2, Tail(ks), Tail(fs))

\* MatchItem with the identifier put into the index before the add is tried.
MatchItemRecordsFirst(t, st, k, f) ==
    LET rs == SearchResults(k)
        m == FirstMatch(rs)
    IN  IF f = "search"
        THEN [Failed(Logged(st, Outcome(t, k, f, 0, FALSE, FALSE, FALSE)))
                EXCEPT !.not_found = Append(@, NotFoundStr(t, k))]
        ELSE IF m = 0
        THEN [Logged(st, Outcome(t, k, f, 0, FALSE, FALSE, FALSE))
                EXCEPT !.not_found = Append(@, NotFoundStr(t, k))]
        ELSE IF rs[m].id \notin st.existing
        THEN IF f = "add"
             THEN [Failed(Logged(st, Outcome(t, k, f, rs[m].id, TRUE, FALSE, FALSE)))
                     EXCEPT !.existing = @ \cup {rs[m].id}]
             ELSE [Logged(st, Outcome(t, k, f, rs[m].id, TRUE, FALSE, TRUE))
                     EXCEPT !.existing = @ \cup {rs[m].id},
                            !.listing = AddFavorite(@, rs[m].id),
                            !.added = @ + 1]
        ELSE Logged(st, Outcome(t, k, f, rs[m].id, FALSE, TRUE, FALSE))

\* MatchItem with a failed add handled like a failed search.
MatchItemAddFailureNotFound(t, st, k, f) ==
    LET rs == SearchResults(k)
        m == FirstMatch(rs)
    IN  IF f = "search"
        THEN [Failed(Logged(st, Outcome(t, k, f, 0, FALSE, FALSE, FALSE)))
                EXCEPT !.not_found = Append(@, NotFoundStr(t, k))]
        ELSE IF m = 0
        THEN [Logged(st, Outcome(t, k, f, 0, FALSE, FALSE, FALSE))
                EXCEPT !.not_found = Append(@, NotFoundStr(t, k))]
        ELSE IF rs[m].id \notin st.existing
        THEN IF f = "add"
             THEN [Failed(Logged(st, Outcome(t, k, f, rs[m].id, TRUE, FALSE, FALSE)))
                     EXCEPT !.not_found = Append(@, NotFoundStr(t, k))]
             ELSE [Logged(st, Outcome(t, k, f, rs[m].id, TRUE, FALSE, TRUE))
                     EXCEPT !.existing = @ \cup {rs[m].id},
                            !.listing = AddFavorite(@, rs[m].id),
                            !.added = @ + 1]
        ELSE Logged(st, Outcome(t, k, f, rs[m].id, FALSE, TRUE, FALSE))

\* The body of the albums and of the artists loop from its search on.
MatchItem(t, st, k, f) ==
    LET rs == SearchResults(k)
        m == FirstMatch(rs)
    IN  IF f = "search"
        THEN [Failed(Logged(st, Outcome(t, k, f, 0, FALSE, FALSE, FALSE)))
                EXCEPT !.not_found = Append(@, NotFoundStr(t, k))]
        ELSE IF m = 0
        THEN [Logged(st, Outcome(t, k, f, 0, FALSE, FALSE, FALSE))
                EXCEPT !.not_found = Append(@, NotFoundStr(t, k))]
        ELSE IF rs[m].id \notin st.existing
        THEN IF f = "add"
             THEN Failed(Logged(st, Outcome(t, k, f, rs[m].id, TRUE, FALSE, FALSE)))
             ELSE [Logged(st, Outcome(t, k, f, rs[m].id, TRUE, FALSE, TRUE))
                     EXCEPT !.existing = @ \cup {rs[m].id},
                            !.listing = AddFavorite(@, rs[m].id),
                            !.added = @ + 1]
        ELSE Logged(st, Outcome(t, k, f, rs[m].id, FALSE, TRUE, FALSE))

MatchState ==
    [existing |-> existing, listing |-> tidal[cur], added |-> added,
     not_found |-> not_found, failed |-> 0, log |-> log]

\* The fault choices for n items in which every named call does fail.
FaultChoices(n) == [1..n -> ItemFaults]

NumFaults(fs) == Cardinality({j \in DOMAIN fs : fs[j] # "none"})

SetMatchState(st) ==
    /\ st.failed + faults <= env.maxFaults
    /\ faults' = faults + st.failed
    /\ existing' = st.existing
    /\ tidal' = [tidal EXCEPT ![cur] = st.listing]
    /\ added' = st.added
    /\ not_found' = st.not_found
    /\ log' = st.log

\* ItemPct as the fraction of a hundred, without the offset of 20.
ItemPctOfHundred(t, done, tot) == (done * 100) \div Max(tot, 1)

\* pct = 20 + int(processed / max(total, 1) * 75), or * 80
ItemPct(t, done, tot) == 20 + PyIntScale(done, Max(tot, 1), Scale(t))

\* favorites: one turn of "async for track in ...": the track joins the
\* batch, and a batch of MAX_CONCURRENT_SEARCHES is searched and reported.
FavoritesItem ==
    /\ pc = "iter" /\ cur = "favorites" /\ rd.buf # << >>
    /\ TakeItem
    /\ LET b == Append(batch, Head(rd.buf))
       IN  IF Len(b) >= MAX_CONCURRENT_SEARCHES
           THEN \E fs \in FaultChoices(Len(b)) :
                  LET st == GatherBatch(MatchState, b, fs)
                  IN  /\ st.failed = NumFaults(fs)
                      /\ SetMatchState(st)
                      /\ processed' = processed + Len(b)
                      /\ batch' = << >>
                      /\ Emit(EvProgress(cur, ItemPct(cur, processed', total),
                                         <<"Processing", processed', total>>))
           ELSE /\ batch' = b
                /\ UNCHANGED <<tidal, faults, log, events, existing, added, not_found, processed>>
    /\ UNCHANGED <<frame, nf_file, pc, ti, result, total, i, offset, item>>

\* favorites: the iterator is exhausted; the remaining batch, the result
\* and the done event.
FavoritesDone ==
    /\ pc = "iter" /\ cur = "favorites" /\ Exhausted
    /\ \E fs \in FaultChoices(Len(batch)) :
          LET st == GatherBatch(MatchState, batch, fs)
          IN  /\ st.failed = NumFaults(fs)
              /\ SetMatchState(st)
              /\ processed' = processed + Len(batch)
              /\ result' = Put(result, cur, [added |-> st.added, total |-> total,
                                             not_found |-> st.not_found])
    /\ Emit(EvDone(cur, result'[cur]))
    /\ pc' = "select"
    /\ ti' = ti + 1
    /\ UNCHANGED <<frame, nf_file, total, i, offset, batch, rd, item>>

\* albums, artists: one turn of the loop up to its progress event.
ItemProgress ==
    /\ pc = "iter" /\ cur \in {"albums", "artists"} /\ rd.buf # << >>
    /\ TakeItem
    /\ item' = Head(rd.buf)
    /\ processed' = processed + 1
    /\ Emit(EvProgress(cur, ItemPct(cur, processed', total),
                       <<processed', total, ItemName(item')>>))
    /\ pc' = "search"
    /\ UNCHANGED <<ctx, tidal, nf_file, faults, ti, result,
                   total, i, existing, offset, added, not_found, batch>>

\* albums, artists: the search, the comparison and the add for the item.
ItemSearch ==
    /\ pc = "search"
    /\ \E f \in ItemFaults \ {"query"} :
          LET st == MatchItem(cur, MatchState, item, f)
          IN  /\ st.failed = NumFaults(<<f>>)
              /\ SetMatchState(st)
    /\ pc' = "iter"
    /\ UNCHANGED <<frame, nf_file, ti, events, result,
                   total, i, offset, processed, batch, rd, item>>

\* albums, artists: building the query string raises, outside the item's try.
ItemQueryFails ==
    /\ pc = "search" /\ CanFail
    /\ \E e \in env.excs : Raise(e)

\* albums, artists: the iterator is exhausted; the result and the done event.
ItemsDone ==
    /\ pc = "iter" /\ cur \in {"albums", "artists"} /\ Exhausted
    /\ result' = Put(result, cur, [added |-> added, total |-> total, not_found |-> not_found])
    /\ Emit(EvDone(cur, result'[cur]))
    /\ pc' = "select"
    /\ ti' = ti + 1
    /\ UNCHANGED <<ctx, tidal, nf_file, faults, locals>>

Next ==
    \/ SkipTask \/ StartTask \/ Complete
    \/ PlaylistsFetched \/ PlaylistsFetchFails \/ PlaylistProgress \/ PlaylistSync
    \/ PlaylistsDone
    \/ CountingProgress \/ Counted \/ CountFails \/ LoadingProgress \/ LoadBatch
    \/ LoadFails
    \/ FetchPage \/ FetchFails
    \/ FavoritesItem \/ FavoritesDone \/ ItemProgress \/ ItemSearch \/ ItemQueryFails
    \/ ItemsDone

(***************************************************************************)
(* Specifications.  Each draws the call's flags and the two services from  *)
(* bounded sets.                                                           *)
(***************************************************************************)
Prefix(s, n) == SubSeq(s, 1, Min(n, Len(s)))

\* s served in pages of the given size.
Paginate(s, size) ==
    [j \in 1..((Len(s) + size - 1) \div size) |->
        SubSeq(s, (j - 1) * size + 1, Min(j * size, Len(s)))]

Flatten(pages) == [t \in ItemTasks |->
    Cardinality({<<n, j>> \in (1..Len(pages[t])) \X (1..BATCH_SIZE) : j <= Len(pages[t][n])})]

\* The order in which the bounded libraries hold their items.
ItemOrder == <<2, 1, 3, 5, 6, 4>>

MaxFaults == 2

MaxStructPlaylists == 1

MaxStructItems == 1

StructLibs == {Paginate(Prefix(ItemOrder, m), BATCH_SIZE) : m \in 0..MaxStructItems}

StructEnvs ==
    {[playlists |-> [j \in 1..n |-> j],
      playlistMisses |-> FALSE,
      lib |-> l,
      counts |-> [t \in ItemTasks |-> {Flatten(l)[t]}],
      excs |-> AllExcs,
      maxFaults |-> MaxFaults] :
        n \in 0..MaxStructPlaylists, l \in [ItemTasks -> StructLibs]}

\* Every selection of collection types, small libraries, an empty destination.
Init == InitRun([TaskSet -> BOOLEAN], StructEnvs, {NoFavorites})

Spec == Init /\ [][Next]_vars

(***************************************************************************)
(* Properties of the event stream.                                         *)
(***************************************************************************)
EvIdx == 1..Len(events)

HasTask(j) == "task" \in DOMAIN events[j]

TaskEvents(t) == {j \in EvIdx : HasTask(j) /\ events[j].task = t}

OfType(ty) == {j \in EvIdx : events[j].type = ty}

Starts(t) == {j \in TaskEvents(t) : events[j].type = "start"}

Terminals(t) == {j \in TaskEvents(t) : events[j].type \in {"done", "error"}}

ProgressOf(t) == {j \in TaskEvents(t) : events[j].type = "progress"}

TaskIndex(t) == CHOOSE n \in 1..4 : Tasks[n] = t

Returned == pc = "returned"

AuthTruncated == OfType("auth_expired") # {}

LastEvent == events[Len(events)]

\* C1: every attempted collection type has exactly one start event, before
\* all its other events; at most one done or error event, which is its last
\* event; its events are consecutive (no other event lies between two of
\* them); and once another type's start or the complete event has been
\* emitted, it has exactly one done or error event, emitted before that.
C1_Bracketed ==
    \A t \in TaskSet :
        LET te == TaskEvents(t)
            st == {j \in te : events[j].type = "start"}
            tm == {j \in te : events[j].type \in {"done", "error"}}
        IN  /\ Cardinality(st) <= 1
            /\ Cardinality(tm) <= 1
            /\ \A j \in te : \E b \in st : b <= j
            /\ \A j \in te : \A z \in tm : j <= z
            /\ \A m \in EvIdx :
                  (\E j \in te : j <= m) /\ (\E k \in te : m <= k) => m \in te
            /\ \A j \in EvIdx :
                  (/\ \/ events[j].type = "complete"
                      \/ (events[j].type = "start" /\ events[j].task # t)
                   /\ \E b \in st : b < j)
                  => \E z \in tm : z < j

\* A finished run in which one collection ended with done, another with
\* error, and progress was reported.
C1_Witness ==
    /\ Returned /\ OfType("complete") # {}
    /\ \E t \in TaskSet : \E u \in TaskSet \ {t} :
          /\ \E z \in Terminals(t) : events[z].type = "done"
          /\ \E z \in Terminals(u) : events[z].type = "error"
          /\ ProgressOf(t) # {}

\* C2: the start events appear in the order playlists, favorites, albums,
\* artists; a type that was not selected has no event; between two start
\* events lies the done or error event of the earlier type; and a run that
\* reaches complete has started every selected type.
C2_FixedOrder ==
    /\ \A j \in OfType("start") : \A k \in OfType("start") :
          j < k => /\ TaskIndex(events[j].task) < TaskIndex(events[k].task)
                   /\ \E z \in Terminals(events[j].task) : j < z /\ z < k
    /\ \A j \in EvIdx : HasTask(j) => sel[events[j].task]
    /\ OfType("complete") # {} => \A t \in TaskSet : sel[t] => Starts(t) # {}

\* A finished run of favorites and artists alone.
C2_Witness ==
    /\ Returned /\ OfType("complete") # {}
    /\ ~sel["playlists"] /\ sel["favorites"] /\ ~sel["albums"] /\ sel["artists"]
    /\ Cardinality(OfType("start")) = 2

\* C3: when a block's handler has caught an exception that is_auth_error
\* classifies as an authentication failure, the run has returned and its
\* last event is the only auth_expired event, with service "spotify",
\* directly after an event of that block; there is no error event of that
\* block and no complete event.
C3_AuthExpiredEndsRun ==
    \A n \in 1..Len(caught) :
        is_auth_error(caught[n].e) =>
            /\ n = Len(caught)
            /\ Returned
            /\ Len(events) >= 2
            /\ LastEvent = [type |-> "auth_expired", service |-> "spotify"]
            /\ OfType("auth_expired") = {Len(events)}
            /\ Len(events) - 1 \in TaskEvents(caught[n].task)
            /\ \A z \in Terminals(caught[n].task) : events[z].type # "error"
            /\ OfType("complete") = {}

\* An authentication failure in a block that is not the last selected one,
\* after an earlier block has finished.
C3_Witness ==
    /\ caught # << >> /\ is_auth_error(caught[Len(caught)].e)
    /\ \E t \in TaskSet : TaskIndex(t) > TaskIndex(caught[Len(caught)].task) /\ sel[t]
    /\ OfType("done") # {}

NonAuthCaught == {n \in 1..Len(caught) : ~is_auth_error(caught[n].e)}

ErrorEventsOf(t) == {j \in TaskEvents(t) : events[j].type = "error"}

LaterSelected(t) == {u \in TaskSet : TaskIndex(u) > TaskIndex(t) /\ sel[u]}

\* C4 as stated: after a non-authentication failure of a block, a run that
\* has ended has attempted every later selected type and ended with complete.
C4_AlwaysComplete ==
    \A n \in NonAuthCaught :
        Returned => /\ \A u \in LaterSelected(caught[n].task) : Starts(u) # {}
                    /\ LastEvent.type = "complete"

\* C4, amended: after a non-authentication failure of a block there is
\* exactly one error event of that block, carrying str(e), and result holds
\* the error marker for it; and a run that has ended without auth_expired
\* has attempted every later selected type and ended with complete.
C4_ErrorThenContinue ==
    \A n \in NonAuthCaught :
        LET t == caught[n].task
        IN  /\ Cardinality(ErrorEventsOf(t)) = 1
            /\ \A j \in ErrorEventsOf(t) : events[j].error = Str(caught[n].e)
            /\ t \in DOMAIN result
            /\ result[t] = [error |-> Str(caught[n].e)]
            /\ pc # "returned" \/ AuthTruncated \/
                  (/\ \A u \in LaterSelected(t) : Starts(u) # {}
                   /\ LastEvent.type = "complete")

\* A block failed with a non-authentication error, a later block finished
\* with done, and the run ended with complete.
C4_Witness ==
    /\ Returned /\ LastEvent.type = "complete"
    /\ \E n \in NonAuthCaught :
          \E u \in LaterSelected(caught[n].task) :
              \E z \in Terminals(u) : events[z].type = "done"

\* C5: there is at most one complete event and nothing follows it; a run
\* that has ended without auth_expired ends with complete, and with no type
\* selected complete is its only event.
C5_CompleteLast ==
    /\ OfType("complete") \subseteq {Len(events)}
    /\ Returned /\ ~AuthTruncated =>
          /\ events # << >>
          /\ LastEvent.type = "complete"
          /\ (\A t \in TaskSet : ~sel[t]) => Len(events) = 1

\* A run with nothing selected has ended.
C5_Witness ==
    /\ Returned /\ \A t \in TaskSet : ~sel[t]
    /\ Len(events) = 1 /\ LastEvent.type = "complete"

(***************************************************************************)
(* One collection type at a time, with libraries of several items, counts  *)
(* that need not agree with what the iterator yields, and a destination    *)
(* that already holds favorites.                                           *)
(***************************************************************************)
MaxItems == 7

MaxCount == 7

MaxOneFaults == 1

Only(t) == [u \in TaskSet |-> u = t]

\* The saved tracks hold an entry without a track.
TrackOrder == <<2, 0, 1, 3, 5, 6, 4>>

SourceOrder(t) == IF t = "favorites" THEN TrackOrder ELSE ItemOrder

SourceItems(t, m) ==
    [j \in 1..m |-> SourceOrder(t)[((j - 1) % Len(SourceOrder(t))) + 1]]

\* A destination listing of n favorites.
TidalListing(n) == [j \in 1..n |-> j]

OneLibs(t) ==
    {[u \in ItemTasks |-> IF u = t THEN Paginate(SourceItems(t, m), BATCH_SIZE) ELSE << >>] :
        m \in 0..MaxItems}

OneEnvs(t) ==
    {[playlists |-> [j \in 1..n |-> j],
      playlistMisses |-> TRUE,
      lib |-> l,
      counts |-> [u \in ItemTasks |-> 0..MaxCount],
      excs |-> AllExcs,
      maxFaults |-> MaxOneFaults] :
        n \in IF t = "playlists" THEN 0..MaxItems ELSE {0}, l \in OneLibs(t)}

OneTidals(t) ==
    {[u \in ItemTasks |-> IF u = t THEN TidalListing(n) ELSE << >>] :
        n \in {0, 1, batch_size}}

InitOne == \E t \in TaskSet : InitRun({Only(t)}, OneEnvs(t), OneTidals(t))

SpecOne == InitOne /\ [][Next]_vars

(***************************************************************************)
(* Properties of the percent values.                                       *)
(***************************************************************************)
Percent(j) == events[j].percent

DoneOf(t) == {j \in TaskEvents(t) : events[j].type = "done"}

\* The progress events of the source loop of favorites, albums or artists:
\* "Processing p/T" and "p/T: name".
ProcessingOf(t) == {j \in ProgressOf(t) : t \in ItemTasks /\ Len(events[j].item) = 3}

ProcessedIn(j) ==
    IF events[j].task = "favorites" THEN events[j].item[2] ELSE events[j].item[1]

TotalIn(j) ==
    IF events[j].task = "favorites" THEN events[j].item[3] ELSE events[j].item[2]

\* The total that the "Found N" event of t announced.
FoundOf(t) ==
    {events[j].item[2] :
        j \in {h \in ProgressOf(t) : Len(events[h].item) = 2 /\ events[h].item[1] = "Found"}}

\* C6 as stated: within one collection type the percent values of successive
\* progress events do not decrease, and every percent value lies in 0..100,
\* whatever the source holds and whatever the count operation returned.
C6_PercentMonotoneBounded ==
    \A t \in TaskSet :
        /\ \A j \in ProgressOf(t) : \A k \in ProgressOf(t) :
              j < k => Percent(j) <= Percent(k)
        /\ \A j \in ProgressOf(t) : Percent(j) >= 0 /\ Percent(j) <= 100

\* C7 as stated: when a collection type has ended with done, its last
\* progress event has percent 100; and when its total is 0, it has exactly
\* one progress event with percent 100.
C7_LastProgressIsHundred ==
    \A t \in TaskSet : \A d \in DoneOf(t) :
        LET ps == ProgressOf(t)
            tot == IF t = "playlists" THEN events[d].result.synced
                   ELSE events[d].result.total
        IN  /\ ps # {}
            /\ \A j \in ps : (\A k \in ps : k <= j) => Percent(j) = 100
            /\ tot = 0 => Cardinality({j \in ps : Percent(j) = 100}) = 1

\* C9 as stated: every progress event of the source loop of favorites,
\* albums and artists has percent floor(processed / max(T, 1) * 100).
C9_PercentOfHundred ==
    \A t \in ItemTasks : \A j \in ProcessingOf(t) :
        Percent(j) = (ProcessedIn(j) * 100) \div Max(TotalIn(j), 1)

\* C9, amended: the n-th progress event of the source loop carries the
\* number of items taken from the iterator so far (n for albums and artists,
\* 3 n for favorites, which reports once per batch of three), the total that
\* the count returned, and percent 20 + int(processed / max(T, 1) * 80) for
\* albums and artists, 20 + int(processed / max(T, 1) * 75) for favorites,
\* in Python's float arithmetic.
C9_PercentOffsetScaled ==
    \A t \in ItemTasks : \A j \in ProcessingOf(t) :
        LET n == Cardinality({h \in ProcessingOf(t) : h <= j})
            p == ProcessedIn(j)
            T == TotalIn(j)
        IN  /\ p = IF t = "favorites" THEN 3 * n ELSE n
            /\ FoundOf(t) = {T}
            /\ Percent(j) = 20 + PyIntScale(p, IF T > 1 THEN T ELSE 1,
                                            IF t = "favorites" THEN 75 ELSE 80)

\* A collection ended with done after at least two progress events of its
\* source loop, the count having returned a total of at least two.
C9_Witness ==
    \E t \in ItemTasks :
        /\ DoneOf(t) # {}
        /\ Cardinality(ProcessingOf(t)) >= 2
        /\ \A j \in ProcessingOf(t) : TotalIn(j) >= 2

(***************************************************************************)
(* The playlists block alone, with no failure that reaches its handler:    *)
(* sync_playlist may still raise for a playlist, which the loop swallows.  *)
(***************************************************************************)
MaxPlaylists == 50

MaxPlaylistFaults == 1

PlaylistEnvs ==
    {[playlists |-> [j \in 1..n |-> j],
      playlistMisses |-> FALSE,
      lib |-> NoFavorites,
      counts |-> [u \in ItemTasks |-> {0}],
      excs |-> AllExcs,
      maxFaults |-> MaxPlaylistFaults] : n \in 0..MaxPlaylists}

InitPlaylists == InitRun({Only("playlists")}, PlaylistEnvs, {NoFavorites})

NextPlaylists ==
    \/ SkipTask \/ StartTask \/ Complete
    \/ PlaylistsFetched \/ PlaylistProgress \/ PlaylistSync \/ PlaylistsDone

SpecPlaylists == InitPlaylists /\ [][NextPlaylists]_vars

\* C8 as stated: when the playlists task of a source with N >= 1 playlists
\* has ended with done, it has emitted exactly N progress events, the k-th
\* with current = k, total = N and percent = floor(k * 100 / N), and the
\* done event's result has synced = N.
C8_PlaylistPercentFloor ==
    \A d \in DoneOf("playlists") :
        LET N == Len(env.playlists)
            ps == ProgressOf("playlists")
        IN  N >= 1 =>
              /\ Cardinality(ps) = N
              /\ \A j \in ps :
                    LET k == Cardinality({h \in ps : h <= j})
                    IN  /\ events[j].current = k
                        /\ events[j].total = N
                        /\ Percent(j) = (k * 100) \div N
              /\ \A j \in ps : j < d
              /\ events[d].result.synced = N

(***************************************************************************)
(* Two runs in a row: the same source, the destination as the first run    *)
(* left it.                                                                *)
(***************************************************************************)
MaxTwiceItems == 4

MaxTwiceFaults == 1

\* run_sync_streaming is called again: fresh locals, an empty result.
Rerun ==
    /\ pc = "returned" /\ run = 1
    /\ run' = 2
    /\ first' = tidal
    /\ log' = << >>
    /\ loads' = << >>
    /\ pc' = "select"
    /\ ti' = 1
    /\ events' = << >>
    /\ result' = << >>
    /\ caught' = << >>
    /\ total' = 0 /\ i' = 0 /\ existing' = {} /\ offset' = 0 /\ added' = 0
    /\ not_found' = << >> /\ processed' = 0 /\ batch' = << >> /\ rd' = RdInit /\ item' = 0
    /\ UNCHANGED <<sel, env, tidal, nf_file, faults, spotify, web, tidal_semaphore, tasks>>

TwiceEnvs(t) ==
    {[playlists |-> [j \in 1..n |-> j],
      playlistMisses |-> FALSE,
      lib |-> [u \in ItemTasks |->
                 IF u = t THEN Paginate(SourceItems(t, m), BATCH_SIZE) ELSE << >>],
      counts |-> [u \in ItemTasks |-> {IF u = t THEN m ELSE 0}],
      excs |-> AllExcs,
      maxFaults |-> MaxTwiceFaults] :
        n \in IF t = "playlists" THEN {1} ELSE {0},
        m \in IF t = "playlists" THEN {0} ELSE 0..MaxTwiceItems}

TwiceTidals(t) ==
    {[u \in ItemTasks |-> IF u = t THEN TidalListing(n) ELSE << >>] : n \in {0, 1}}

InitTwice == \E t \in TaskSet : InitRun({Only(t)}, TwiceEnvs(t), TwiceTidals(t))

NextTwice == Next \/ Rerun

SpecTwice == InitTwice /\ [][NextTwice]_vars

\* The items the source iterator of t yields over its pages.
RECURSIVE Concat(_)
Concat(pages) == IF pages = << >> THEN << >> ELSE Head(pages) \o Concat(Tail(pages))

SourceYield(t) == Yielded(t, Concat(env.lib[t]))

\* The destination id that the matching picks for source item k (0: none).
MatchId(k) ==
    LET rs == SearchResults(k)
        m == FirstMatch(rs)
    IN  IF m = 0 THEN 0 ELSE rs[m].id

\* The first run left nothing to add: the destination it left holds the
\* match of every source item.
HeldAll(t) ==
    \A n \in 1..Len(SourceYield(t)) :
        MatchId(SourceYield(t)[n]) # 0 => MatchId(SourceYield(t)[n]) \in Range(first[t])

\* C10 as stated: when the second of two runs in a row has ended favorites,
\* albums or artists with done, and the destination the first run left
\* already held the match of every item of the unchanged source, the second
\* run's result has added = 0.
C10_SecondRunAddsNothing ==
    \A t \in ItemTasks : \A d \in DoneOf(t) :
        run = 2 /\ HeldAll(t) => events[d].result.added = 0

(***************************************************************************)
(* Properties of the matching of the source items.                         *)
(***************************************************************************)
\* The outcomes logged for the source items of collection t.
ItemLog(t) == {n \in 1..Len(log) : log[n].kind = "item" /\ log[n].task = t}

OkAdds(t) == {n \in ItemLog(t) : log[n].ok}

Processing(t) == ti <= 4 /\ cur = t /\ pc \in {"iter", "search"}

\* C11: within one run and one collection type, an add is issued only for
\* an identifier that is not in the index, never for one that an earlier add
\* of the run has put there, and no identifier is added successfully twice;
\* added counts each successfully added identifier once, also when several
\* tracks of one favorites batch have the same first matching candidate.
C11_NoDuplicateAdd ==
    \A t \in ItemTasks :
        /\ \A n \in ItemLog(t) : log[n].issued => ~log[n].indexed
        /\ \A n \in OkAdds(t) : \A m \in ItemLog(t) :
              n < m /\ log[m].id = log[n].id => ~log[m].issued /\ log[m].indexed
        /\ Processing(t) => added = Cardinality({log[n].id : n \in OkAdds(t)})
        /\ \A d \in DoneOf(t) :
              events[d].result.added = Cardinality({log[n].id : n \in OkAdds(t)})

\* Favorites has ended with done; two tracks of its first batch had the same
\* first matching candidate, which was added for the first of them only.
C11_Witness ==
    /\ DoneOf("favorites") # {}
    /\ \E n \in OkAdds("favorites") : \E m \in ItemLog("favorites") :
          /\ n < m /\ m <= MAX_CONCURRENT_SEARCHES
          /\ log[m].id = log[n].id /\ log[m].k # log[n].k
          /\ ~log[m].issued

\* The index of the current collection exists: from its loading on.
IndexLive == ti <= 4 /\ cur \in ItemTasks /\ pc \in {"load", "iter", "search"}

\* The outcomes that the step under way appends to the log.
NewOutcomes == {n \in (Len(log) + 1)..Len(log') : log'[n].kind = "item"}

\* C12: in every step taken while a collection's index exists, the index
\* keeps what it holds, and what it gains was returned by the batch of the
\* initial load fetched in that step or is the target of an add that
\* succeeded in that step; an identifier whose add failed is not gained
\* unless another add of it succeeded.
C12_IndexGrowsByLoadOrAdd ==
    [][IndexLive =>
          LET gained == existing' \ existing
              loaded == IF pc = "load"
                        THEN Range(FavoritesPage(tidal[cur], batch_size, offset))
                        ELSE {}
              succeeded == {log'[n].id : n \in {h \in NewOutcomes : log'[h].ok}}
          IN  /\ existing \subseteq existing'
              /\ gained \subseteq (loaded \cup succeeded)
              /\ \A n \in NewOutcomes :
                    log'[n].issued /\ ~log'[n].ok /\ log'[n].id \notin succeeded
                        => log'[n].id \notin existing']_vars

\* An index that holds an identifier from the initial load and one added in
\* this run, and not the identifier of an add that failed.
C12_Witness ==
    \E t \in ItemTasks :
        /\ Processing(t)
        /\ \E x \in existing : \A n \in OkAdds(t) : log[n].id # x
        /\ \E n \in OkAdds(t) : log[n].id \in existing
        /\ \E n \in ItemLog(t) : log[n].issued /\ ~log[n].ok /\ log[n].id \notin existing

\* C13: in every step that handles source items, added grows by the number
\* of adds that succeeded and the index gains exactly their identifiers, so
\* a failed add changes neither; not_found grows by at most the number of
\* items for which no add was issued, so no item whose add failed is
\* appended to it; and the step neither emits an error or auth_expired event
\* nor leaves the collection other than by its done event.
C13_AddFailureStillMatched ==
    [][NewOutcomes # {} =>
          LET issued == {n \in NewOutcomes : log'[n].issued}
              succeeded == {n \in issued : log'[n].ok}
          IN  /\ added' = added + Cardinality(succeeded)
              /\ existing' = existing \cup {log'[n].id : n \in succeeded}
              /\ Len(not_found') - Len(not_found)
                    <= Cardinality(NewOutcomes) - Cardinality(issued)
              /\ \A j \in (Len(events) + 1)..Len(events') :
                    events'[j].type \in {"progress", "done"}
              /\ pc' \in {"iter", "select"}
              /\ pc' = "select" =>
                    /\ events'[Len(events')].type = "done"
                    /\ events'[Len(events')].result.added = added'
                    /\ events'[Len(events')].result.not_found = not_found']_vars

\* A collection has ended with done after an add that failed and, for a
\* later item, an add that succeeded.
C13_Witness ==
    \E t \in ItemTasks :
        /\ DoneOf(t) # {}
        /\ \E n \in ItemLog(t) : \E m \in OkAdds(t) :
              n < m /\ log[n].issued /\ ~log[n].ok

\* The outcomes of the items of t that no add was considered for: the search
\* returned and none of its first SEARCH_LIMIT results matched, or the
\* search raised.
Unmatched(t) ==
    SelectSeq(log, LAMBDA o : /\ o.kind = "item" /\ o.task = t
                              /\ o.id = 0 /\ o.f \in {"none", "search"})

\* The not_found list these outcomes call for, in the order of the stream.
ExpectedNotFound(t) ==
    [j \in 1..Len(Unmatched(t)) |->
        LET k == Unmatched(t)[j].k
        IN  IF t = "artists" THEN <<"name", k>>
            ELSE <<(IF k = 4 THEN << >> ELSE <<"artist", k>>), " - ", <<"name", k>> >>]

\* C14: the not_found list of a collection holds, in the order in which the
\* source items were streamed, exactly one entry for each item whose search
\* returned no match among its first five results (or raised): "<first
\* artist> - <title>" for tracks and albums, the name for artists; and no
\* add is issued for such an item, so added does not count it.
C14_NotFoundInOrder ==
    \A t \in ItemTasks :
        /\ Processing(t) => not_found = ExpectedNotFound(t)
        /\ \A d \in DoneOf(t) : events[d].result.not_found = ExpectedNotFound(t)
        /\ \A n \in ItemLog(t) :
              (\A j \in 1..Len(SearchResults(log[n].k)) : ~SearchResults(log[n].k)[j].match)
                  => log[n].id = 0 /\ ~log[n].issued /\ ~log[n].ok

\* Albums has ended with done and no failure; an item without any candidate
\* that matches and, after a matched item, one whose only match is the sixth
\* result are in not_found, in that order.
C14_Witness ==
    /\ DoneOf("albums") # {}
    /\ faults = 0
    /\ Len(ExpectedNotFound("albums")) >= 2
    /\ \E d \in DoneOf("albums") :
          /\ events[d].result.not_found[1] = <<<<"artist", 1>>, " - ", <<"name", 1>> >>
          /\ events[d].result.not_found[2] = <<<<"artist", 5>>, " - ", <<"name", 5>> >>
          /\ events[d].result.added >= 1

\* The outcomes of the items of t whose handling raised before or in the
\* search, or whose search returned no match.
UnmatchedOrRaised(t) ==
    SelectSeq(log, LAMBDA o : o.kind = "item" /\ o.task = t /\ o.id = 0)

\* C15 as stated: an exception raised while one source item is handled (in
\* building the query, in the search, in the comparison) never reaches the
\* handler of the collection, the item is appended to not_found, and the
\* collection goes on to its done event.
C15_ItemFailureContained ==
    /\ \A n \in 1..Len(caught) : caught[n].at # "search"
    /\ \A t \in ItemTasks :
          /\ Processing(t) => Len(not_found) = Len(UnmatchedOrRaised(t))
          /\ \A d \in DoneOf(t) :
                Len(events[d].result.not_found) = Len(UnmatchedOrRaised(t))

(***************************************************************************)
(* Properties of the handling of failures.                                 *)
(***************************************************************************)
\* The exceptions that an inner try of a block swallowed at position at.
SwallowedAt(at) == {n \in 1..Len(log) : log[n].kind = "swallowed" /\ log[n].at = at}

\* C16 as stated: when a call made for a collection has failed with an
\* error that is_auth_error classifies as unauthorized, be it a call of the
\* block itself or the sync_playlist of one playlist, the run has emitted
\* auth_expired and has ended, so that no further collection is attempted.
C16_UnauthorizedEndsRun ==
    /\ \A n \in 1..Len(caught) :
          is_auth_error(caught[n].e) => AuthTruncated /\ Returned
    /\ \A n \in SwallowedAt("pl_sync") :
          is_auth_error(log[n].e) => AuthTruncated /\ Returned

(***************************************************************************)
(* run_sync, the caller that consumes the stream and returns a dict.       *)
(***************************************************************************)
\* The "async for event in run_sync_streaming(...)" loop, from result on.
RECURSIVE run_sync_loop(_, _)
run_sync_loop(res, evs) ==
    IF evs = << >> THEN res
    ELSE run_sync_loop(IF Head(evs).type = "complete" THEN Head(evs).result ELSE res,
                       Tail(evs))

\* run_sync: result = {} and the loop over the stream of a finished run.
run_sync == run_sync_loop(<< >>, events)

\* C17 as stated: when the run has ended with complete, run_sync returns the
\* payload of the complete event; and when an authentication failure has
\* truncated the run, what run_sync returns is not the empty result: it
\* tells the caller of the truncation.
C17_RunSyncSignalsReauth ==
    Returned =>
        /\ \A j \in OfType("complete") : run_sync = events[j].result
        /\ AuthTruncated => DOMAIN run_sync # {}

(***************************************************************************)
(* RefreshableSpotify: calls of a method of the source client, each        *)
(* through the wrapper of __getattr__ when the client is refreshable.      *)
(***************************************************************************)
MaxCalls == 3

\* The answers of the token endpoint: a token, a 200 without a token, another
\* status, or the request raising.
Responses == {"token", "no_token", "status_400", "raises"}

\* refresh_spotify_token: the new access token or None; and whether the
\* token endpoint was asked at all.
refresh_spotify_token(creds, response, new_token) ==
    IF ~creds THEN [token |-> None, posted |-> FALSE]
    ELSE [token |-> IF response = "token" THEN new_token ELSE None, posted |-> TRUE]

\* wrapper(*args): the method is called on self._client.
CallBegins ==
    /\ spotify.at \in {"idle", "returned", "raised"} /\ spotify.n < MaxCalls
    /\ spotify' = [spotify EXCEPT !.at = "call", !.n = @ + 1, !.calls = 0, !.refreshes = 0,
                                  !.refreshed = FALSE, !.original_error = NoExc,
                                  !.raised = NoExc]
    /\ UNCHANGED <<web, loads, tidal_semaphore, tasks, sel, env, run, first, log, caught, tidal, nf_file, faults, pc, ti,
                   events, result, locals>>

CallReturns ==
    /\ spotify.at = "call"
    /\ spotify' = [spotify EXCEPT !.at = "returned", !.calls = @ + 1]
    /\ UNCHANGED <<web, loads, tidal_semaphore, tasks, sel, env, run, first, log, caught, tidal, nf_file, faults, pc, ti,
                   events, result, locals>>

\* The method raises e: "except SpotifyException as e" of the wrapper.
CallRaises ==
    /\ spotify.at = "call"
    /\ \E e \in AllExcs :
          IF /\ spotify.refreshable
             /\ e.cls = "SpotifyException" /\ e.http_status = 401
             /\ spotify.refresh_token # None
          THEN spotify' = [spotify EXCEPT !.at = "refresh", !.calls = @ + 1,
                                          !.original_error = e]
          ELSE spotify' = [spotify EXCEPT !.at = "raised", !.calls = @ + 1, !.raised = e]
    /\ UNCHANGED <<web, loads, tidal_semaphore, tasks, sel, env, run, first, log, caught, tidal, nf_file, faults, pc, ti,
                   events, result, locals>>

\* _refresh_and_retry up to the retry: the token is refreshed, or
\* original_error is raised.
Refresh ==
    /\ spotify.at = "refresh"
    /\ \E response \in Responses :
          LET r == IF spotify.refresh_token # None
                   THEN refresh_spotify_token(spotify.creds, response,
                                              spotify.access_token + 1)
                   ELSE [token |-> None, posted |-> FALSE]
              asked == IF spotify.refresh_token # None THEN 1 ELSE 0
          IN  IF r.token # None
              THEN spotify' = [spotify EXCEPT !.at = "retry", !.refreshes = @ + asked,
                                              !.refreshed = TRUE,
                                              !.access_token = r.token]
              ELSE spotify' = [spotify EXCEPT !.at = "raised", !.refreshes = @ + asked,
                                              !.raised = spotify.original_error]
    /\ UNCHANGED <<web, loads, tidal_semaphore, tasks, sel, env, run, first, log, caught, tidal, nf_file, faults, pc, ti,
                   events, result, locals>>

\* "return getattr(self._client, method_name)(*args, **kwargs)" returns.
RetryReturns ==
    /\ spotify.at = "retry"
    /\ spotify' = [spotify EXCEPT !.at = "returned", !.calls = @ + 1]
    /\ UNCHANGED <<web, loads, tidal_semaphore, tasks, sel, env, run, first, log, caught, tidal, nf_file, faults, pc, ti,
                   events, result, locals>>

\* RetryRaises with the retry made through the wrapper again.
RetryRaisesWrapped ==
    /\ spotify.at = "retry"
    /\ \E e \in AllExcs :
          IF e.cls = "SpotifyException" /\ e.http_status = 401 /\ spotify.refresh_token # None
          THEN spotify' = [spotify EXCEPT !.at = "refresh", !.calls = @ + 1,
                                          !.original_error = e]
          ELSE spotify' = [spotify EXCEPT !.at = "raised", !.calls = @ + 1, !.raised = e]
    /\ UNCHANGED <<web, loads, tidal_semaphore, tasks, sel, env, run, first, log, caught, tidal, nf_file, faults, pc, ti,
                   events, result, locals>>

\* The retry raises: the new client is the bare one, the exception leaves
\* the wrapper.
RetryRaises ==
    /\ spotify.at = "retry"
    /\ \E e \in AllExcs :
          spotify' = [spotify EXCEPT !.at = "raised", !.calls = @ + 1, !.raised = e]
    /\ UNCHANGED <<web, loads, tidal_semaphore, tasks, sel, env, run, first, log, caught, tidal, nf_file, faults, pc, ti,
                   events, result, locals>>

RefreshEnv ==
    [playlists |-> << >>, playlistMisses |-> FALSE, lib |-> NoFavorites,
     counts |-> [u \in ItemTasks |-> {0}], excs |-> AllExcs, maxFaults |-> 0]

InitRefresh ==
    /\ \E refresh_token \in {None, 1}, creds \in BOOLEAN :
          spotify = create_spotify_client(0, refresh_token, creds)
    /\ InitStream({[t \in TaskSet |-> FALSE]}, {RefreshEnv}, {NoFavorites})

NextRefresh ==
    \/ CallBegins \/ CallReturns \/ CallRaises \/ Refresh \/ RetryReturns \/ RetryRaises

SpecRefresh == InitRefresh /\ [][NextRefresh]_vars

IsUnauthorized(e) == e.cls = "SpotifyException" /\ e.http_status = 401

\* C18: for one call through the source client, refresh_spotify_token is
\* called at most once and the method at most twice; the refresh is tried
\* only for a SpotifyException with status 401 and with a refresh token
\* stored; the method is called again only after a refresh that returned a
\* token, with that token, and an exception of that second call leaves the
\* wrapper as it is; after a refresh that returned no token the original
\* exception is raised and the method is not called again.
C18_OneRefreshOneRetry ==
    /\ spotify.refreshes <= 1 /\ spotify.calls <= 2
    /\ spotify.at = "refresh" \/ spotify.refreshes = 1 =>
          /\ IsUnauthorized(spotify.original_error)
          /\ spotify.refresh_token # None
    /\ spotify.at = "retry" =>
          spotify.refreshed /\ spotify.refreshes = 1 /\ spotify.calls = 1
    /\ spotify.calls = 2 => spotify.refreshed /\ spotify.refreshes = 1
    /\ spotify.refreshed => spotify.creds /\ spotify.access_token > 0
    /\ spotify.at = "raised" /\ spotify.refreshes = 1 /\ ~spotify.refreshed =>
          spotify.raised = spotify.original_error /\ spotify.calls = 1
    /\ spotify.at = "raised" /\ spotify.refreshes = 0 => spotify.calls = 1

\* The call raised 401, the token was refreshed, and the second call raised
\* 401 again, which left the wrapper.
C18_Witness ==
    /\ spotify.at = "raised" /\ spotify.calls = 2 /\ spotify.refreshes = 1
    /\ IsUnauthorized(spotify.raised)

CaughtIn(t) == {n \in 1..Len(caught) : caught[n].task = t}

\* C19: after a batch fetch of the index loading has raised, whatever the
\* exception, and as long as no other exception has reached the handler of
\* the collection: the source loop of that collection runs with the
\* identifiers loaded before the failure, the collection has no error
\* event, the run is not truncated, and once the collection is over it has
\* its done event.
C19_LoadFailureContinues ==
    \A n \in SwallowedAt("load") :
        LET t == log[n].task
        IN  CaughtIn(t) = {} =>
                  /\ ti <= 4 /\ cur = t =>
                        pc \in {"iter", "search"} /\ log[n].kept \subseteq existing
                  /\ ErrorEventsOf(t) = {}
                  /\ ~AuthTruncated
                  /\ (ti > TaskIndex(t) => DoneOf(t) # {})

\* The second batch fetch raised with a message that is_auth_error takes
\* for an authentication failure; the collection has ended with done, and
\* an item was found in the index loaded by the first batch.
C19_Witness ==
    \E n \in SwallowedAt("load") :
        /\ is_auth_error(log[n].e)
        /\ log[n].kept # {}
        /\ DoneOf(log[n].task) # {}
        /\ \E m \in ItemLog(log[n].task) : log[m].indexed /\ log[m].id \in log[n].kept

Firsts(rs) == {j \in 1..Len(rs) : rs[j].match /\ \A h \in 1..(j - 1) : ~rs[h].match}

\* The source loop of a collection is under way.
Handling == pc \in {"iter", "search"}

\* C21: in every step that handles source items, each item whose search
\* returned is settled by the first of its first five results that matches:
\* an add is issued for that result if and only if it is not in the index,
\* otherwise the item counts as present and nothing is added for it; and the
\* destination gains nothing but the targets of the adds that succeeded, at
\* most one for each item handled.
C21_FirstMatchWins ==
    [][Handling =>
          LET ok == {n \in NewOutcomes : log'[n].ok}
          IN  /\ Range(tidal'[cur]) \ Range(tidal[cur]) \subseteq {log'[n].id : n \in ok}
              /\ Len(tidal'[cur]) - Len(tidal[cur]) <= Cardinality(ok)
              /\ \A n \in NewOutcomes :
                    LET o == log'[n]
                        rs == Take(CatalogResults(o.k), SEARCH_LIMIT)
                    IN  o.f \in {"none", "add"} =>
                          /\ Firsts(rs) = {} => o.id = 0 /\ ~o.issued
                          /\ \A j \in Firsts(rs) :
                                /\ o.id = rs[j].id
                                /\ o.issued # o.indexed
                                /\ o.indexed => o.id \in existing'
                                /\ (o.ok => o.issued)]_vars

\* An item with two matching results has been handled while the first of
\* them was in the index: nothing was added for it, also not the second.
C21_Witness ==
    \E t \in ItemTasks :
        /\ DoneOf(t) # {}
        /\ \E n \in ItemLog(t) :
              /\ log[n].k = 3 /\ log[n].id = 1 /\ log[n].indexed /\ ~log[n].issued
              /\ 500 \notin Range(tidal[t])

\* C22 as stated: a saved track for which one of the first five results has
\* the track's ISRC is matched, whatever the names.
C22_IsrcMatches ==
    \A n \in ItemLog("favorites") :
        (/\ log[n].f \in {"none", "add"}
         /\ \E j \in 1..Len(SearchResults(log[n].k)) : SearchResults(log[n].k)[j].isrc)
            => log[n].id # 0

(***************************************************************************)
(* The HTTP handlers of main.py, for one caller.  web holds the caller's   *)
(* cookies as the handlers read them ("none": no cookie, "valid", or       *)
(* "invalid": a cookie that get_cookie_data rejects or, for Tidal, a       *)
(* session whose check_login fails), the store pending_tidal_auth with the *)
(* state of each device flow, and the last response.  A sync that a        *)
(* handler starts runs as the generator above.                             *)
(***************************************************************************)
MaxAuths == 1

MaxWebFaults == 1

SyncPaths == {"/sync", "/sync/stream"}

stream == <<sel, env, tidal, nf_file, faults, run, first, log, loads, tidal_semaphore, tasks, spotify,
            pc, ti, events,
            result, locals, caught>>

Response(path, status, location, detail) ==
    [path |-> path, status |-> status, location |-> location, detail |-> detail]

\* del d[k]
Drop(d, k) == [x \in DOMAIN d \ {k} |-> d[x]]

\* get_spotify_session(request) is not None
get_spotify_session(w) == w.spotify_session = "valid"

\* get_tidal_session without the check_login of the restored session.
get_tidal_session_unchecked(w) == w.tidal_session # "none"

\* get_tidal_session(request) is not None
get_tidal_session(w) == w.tidal_session = "valid"

\* pending_tidal_auth.get(auth_id) if auth_id else None
HasPending(w) == w.tidal_auth_id # None /\ w.tidal_auth_id \in DOMAIN w.pending

\* GET /auth/spotify/callback: the session cookie is set when the code was
\* exchanged; otherwise the caller is sent home with an error.
SpotifyCallback ==
    /\ web.at = "idle"
    /\ \E outcome \in {"error", "no_code", "token_exchange_failed", "ok"} :
          web' = IF outcome = "ok"
                 THEN [web EXCEPT !.spotify_session = "valid",
                                  !.resp = Response("/auth/spotify/callback", 307, "/", "")]
                 ELSE [web EXCEPT !.resp = Response("/auth/spotify/callback", 307,
                                                    "/?error", outcome)]
    /\ UNCHANGED stream

\* GET /auth/tidal: a new device flow is stored under a new auth id.
TidalAuth ==
    /\ web.at = "idle" /\ web.auths < MaxAuths
    /\ LET auth_id == web.auths + 1
       IN  web' = [web EXCEPT !.auths = auth_id,
                              !.pending = Put(@, auth_id, "waiting"),
                              !.tidal_auth_id = auth_id,
                              !.resp = Response("/auth/tidal", 307, "/auth/tidal/device", "")]
    /\ UNCHANGED stream

\* The user approves the device, the device flow fails, or it completes for
\* a session that is not logged in: the future of a pending entry is done.
FutureDone ==
    /\ web.at = "idle"
    /\ \E id \in DOMAIN web.pending, how \in {"authorized", "failed", "not_logged_in"} :
          /\ web.pending[id] = "waiting"
          /\ web' = [web EXCEPT !.pending[id] = how]
    /\ UNCHANGED stream

\* GET /auth/tidal/device
TidalDevice ==
    /\ web.at = "idle"
    /\ web' = [web EXCEPT !.resp =
                 IF ~HasPending(web)
                 THEN Response("/auth/tidal/device", 307, "/auth/tidal", "")
                 ELSE Response("/auth/tidal/device", 200, "", "tidal_device.html")]
    /\ UNCHANGED stream

\* GET /auth/tidal/check; detail is the status of the JSON body.
TidalCheck ==
    /\ web.at = "idle"
    /\ LET id == web.tidal_auth_id
       IN  web' = IF ~HasPending(web)
                  THEN [web EXCEPT !.resp = Response("/auth/tidal/check", 200, "", "restart")]
                  ELSE CASE web.pending[id] = "authorized" ->
                              [web EXCEPT !.pending = Drop(@, id),
                                          !.resp = Response("/auth/tidal/check", 200, "",
                                                            "success")]
                         [] web.pending[id] = "failed" ->
                              [web EXCEPT !.resp = Response("/auth/tidal/check", 200, "",
                                                            "error")]
                         [] OTHER ->
                              [web EXCEPT !.resp = Response("/auth/tidal/check", 200, "",
                                                            "pending")]
    /\ UNCHANGED stream

\* POST /auth/tidal/save
TidalSave ==
    /\ web.at = "idle"
    /\ \E tokens \in {"none", "rejected", "good"} :
          web' = CASE tokens = "none" ->
                        [web EXCEPT !.resp = Response("/auth/tidal/save", 400, "",
                                                      "No tokens provided")]
                   [] tokens = "rejected" ->
                        [web EXCEPT !.resp = Response("/auth/tidal/save", 400, "",
                                                      "Token validation failed")]
                   [] OTHER ->
                        [web EXCEPT !.tidal_session = "valid", !.tidal_auth_id = None,
                                    !.resp = Response("/auth/tidal/save", 303, "/", "")]
    /\ UNCHANGED stream

\* A session cookie stops being accepted: the signature does not verify
\* (SECRET_KEY is drawn anew when the server starts without one), or, for
\* Tidal, check_login of the restored session fails.
SessionLapses ==
    /\ web.at = "idle"
    /\ \/ /\ web.spotify_session = "valid"
          /\ web' = [web EXCEPT !.spotify_session = "invalid"]
       \/ /\ web.tidal_session = "valid"
          /\ web' = [web EXCEPT !.tidal_session = "invalid"]
    /\ UNCHANGED stream

\* Logout without the deletion of the Tidal session cookie.
LogoutKeepsTidal ==
    /\ web.at = "idle"
    /\ web' = [web EXCEPT !.spotify_session = "none", !.tidal_auth_id = None,
                          !.resp = Response("/logout", 307, "/", "")]
    /\ UNCHANGED stream

\* GET /logout
Logout ==
    /\ web.at = "idle"
    /\ web' = [web EXCEPT !.spotify_session = "none", !.tidal_session = "none",
                          !.tidal_auth_id = None,
                          !.resp = Response("/logout", 307, "/", "")]
    /\ UNCHANGED stream

\* POST /sync and GET /sync/stream up to the call of run_sync or
\* run_sync_streaming: both sessions are looked up, then checked, Spotify
\* first.
SyncRequest ==
    /\ web.at = "idle"
    /\ \E path \in SyncPaths :
          web' = IF ~get_spotify_session(web)
                 THEN [web EXCEPT !.resp = Response(path, 400, "", "Spotify not connected")]
                 ELSE IF ~get_tidal_session(web)
                 THEN [web EXCEPT !.resp = Response(path, 400, "", "Tidal not connected")]
                 ELSE [web EXCEPT !.at = path]
    /\ UNCHANGED stream

\* An exception that left run_sync_streaming through a statement outside
\* the try of a block.
Escaped(e) == [kind |-> "escaped", task |-> "sync", at |-> pc, e |-> e, kept |-> existing]

Escapes == {n \in 1..Len(log) : log[n].kind = "escaped"}

\* A statement of run_sync_streaming outside the try of every block raises:
\* create_spotify_client on entry, or format_not_found_report after the
\* blocks.  The exception leaves the generator.
StreamRaises ==
    /\ web.at \in SyncPaths /\ CanFail
    /\ pc = "select" /\ ti \in {1, 5}
    /\ web.at = "/sync/stream" => web.sent = events
    /\ \E e \in env.excs : log' = Append(log, Escaped(e))
    /\ faults' = faults + 1
    /\ pc' = "raised"
    /\ UNCHANGED <<frame, tidal, nf_file, ti, events, result, locals>>

\* generate of sync_stream: "yield event" for the event that
\* run_sync_streaming has yielded; the generator resumes after it.
Forward ==
    /\ web.at = "/sync/stream" /\ Len(web.sent) < Len(events)
    /\ pc # "raised"
    /\ web' = [web EXCEPT !.sent = Append(@, events[Len(web.sent) + 1])]
    /\ UNCHANGED stream

\* The error event of generate has been sent.
ErrorSent == pc = "raised" /\ Len(web.sent) > Len(events)

\* StreamError without the error event: the stream just stops.
StreamErrorSilent ==
    /\ web.at = "/sync/stream" /\ pc = "raised" /\ ~ErrorSent
    /\ pc' = "returned"
    /\ UNCHANGED <<world, caught, tidal, nf_file, faults, ti, events, result, locals>>

\* generate of sync_stream: "except Exception as e:" and its error event.
StreamError ==
    /\ web.at = "/sync/stream" /\ pc = "raised" /\ ~ErrorSent
    /\ web' = [web EXCEPT !.sent = Append(@, EvError("sync", Str(log[Len(log)].e)))]
    /\ UNCHANGED stream

\* The generator and its variables are gone.
StreamGone ==
    /\ log' = << >>
    /\ loads' = << >>
    /\ pc' = "select"
    /\ ti' = 1
    /\ events' = << >>
    /\ result' = << >>
    /\ caught' = << >>
    /\ total' = 0 /\ i' = 0 /\ existing' = {} /\ offset' = 0 /\ added' = 0
    /\ not_found' = << >> /\ processed' = 0 /\ batch' = << >>
    /\ rd' = RdInit /\ item' = 0
    /\ UNCHANGED <<sel, env, tidal, nf_file, faults, run, first, spotify, tidal_semaphore, tasks>>

\* POST /sync: the exception leaves run_sync and the handler; the framework
\* answers with 500.
SyncFails ==
    /\ web.at = "/sync" /\ pc = "raised"
    /\ web' = [web EXCEPT !.at = "idle",
                          !.resp = Response("/sync", 500, "", "Internal Server Error")]
    /\ StreamGone

\* The run has ended: /sync renders result.html with what run_sync returns,
\* /sync/stream closes the event stream once every event has been sent.
\* The generator is gone with its variables; the services stay as the run
\* left them.
SyncResponds ==
    /\ web.at \in SyncPaths
    /\ IF web.at = "/sync" THEN pc = "returned"
       ELSE (pc = "returned" /\ web.sent = events) \/ ErrorSent
    /\ web' = [web EXCEPT !.at = "idle", !.sent = << >>,
                          !.resp = Response(web.at, 200, "",
                                            IF web.at = "/sync" THEN "result.html"
                                            ELSE "text/event-stream")]
    /\ StreamGone

\* A step of the run that a handler has started; generate resumes the
\* generator when it has sent the event before.
SyncStep ==
    /\ web.at \in SyncPaths
    /\ web.at = "/sync/stream" => web.sent = events
    /\ Next

\* The caller's library: one saved track; the form asks for the favorites.
WebEnv ==
    [playlists |-> << >>, playlistMisses |-> FALSE,
     lib |-> [t \in ItemTasks |->
                IF t = "favorites" THEN Paginate(Prefix(TrackOrder, 1), BATCH_SIZE) ELSE << >>],
     counts |-> [t \in ItemTasks |-> {IF t = "favorites" THEN 1 ELSE 0}],
     excs |-> AllExcs, maxFaults |-> MaxWebFaults]

InitWeb == InitRun({Only("favorites")}, {WebEnv}, {NoFavorites})

NextWeb ==
    \/ SpotifyCallback \/ TidalAuth \/ FutureDone \/ TidalDevice \/ TidalCheck \/ TidalSave
    \/ SessionLapses \/ Logout \/ SyncRequest \/ SyncResponds \/ SyncStep
    \/ StreamRaises \/ Forward \/ StreamError \/ SyncFails

SpecWeb == InitWeb /\ [][NextWeb]_vars

(***************************************************************************)
(* Properties of the HTTP handlers.                                        *)
(***************************************************************************)
\* The step answers a request for path with a response other than the last.
Answers(path) == web'.resp # web.resp /\ web'.resp.path = path

\* C23: while no sync is under way nothing of a run exists, and no step
\* makes a call on a service or emits an event; a sync starts only from a
\* request that carries a valid Spotify session and a valid Tidal session;
\* a sync request without them is answered with 400, the detail naming
\* Spotify when the Spotify session is missing and Tidal otherwise.
C23_SyncNeedsBothSessions ==
    [][web.at = "idle" =>
          LET both == web.spotify_session = "valid" /\ web.tidal_session = "valid"
          IN  /\ events = << >> /\ log = << >> /\ pc = "select"
              /\ UNCHANGED <<tidal, nf_file, faults, log, events, pc, ti, result>>
              /\ web'.at \in SyncPaths => both
              /\ \A path \in SyncPaths :
                    Answers(path) =>
                        /\ ~both
                        /\ web'.at = "idle"
                        /\ web'.resp.status = 400
                        /\ web'.resp.detail = IF web.spotify_session # "valid"
                                              THEN "Spotify not connected"
                                              ELSE "Tidal not connected"]_vars

\* /sync/stream was refused with "Tidal not connected" for a caller with a
\* valid Spotify session and a Tidal cookie whose session is not logged in.
C23_Witness ==
    /\ web.resp = Response("/sync/stream", 400, "", "Tidal not connected")
    /\ web.spotify_session = "valid" /\ web.tidal_session = "invalid"
    /\ web.at = "idle" /\ events = << >>

\* C24 as stated: GET /auth/tidal/device without a pending authorization of
\* the caller redirects to "/".
C24_DeviceWithoutPendingGoesHome ==
    [][Answers("/auth/tidal/device") /\ ~HasPending(web) =>
          web'.resp.status = 307 /\ web'.resp.location = "/"]_vars

\* C25 as stated: GET /auth/tidal/check without a pending authorization of
\* the caller answers with status "error".
C25_CheckWithoutPendingIsError ==
    [][Answers("/auth/tidal/check") /\ ~HasPending(web) =>
          web'.resp.detail = "error"]_vars

LoadsOf(t) == SelectSeq(loads, LAMBDA l : l.task = t)

\* The events "Loaded N ..." of t.
LoadedEvents(t) == {j \in ProgressOf(t) : events[j].percent = 15}

\* The index of t has been loaded without a failure, and no item has been
\* handled since.
JustLoaded(t) ==
    /\ Processing(t) /\ ItemLog(t) = {}
    /\ \A n \in SwallowedAt("load") : log[n].task # t

\* C27 as stated: the index loading emits one progress event for every
\* batch it has fetched, the final short batch and a single batch included.
C27_EventPerBatch ==
    \A t \in ItemTasks :
        ti <= 4 /\ cur = t => Cardinality(LoadedEvents(t)) = Len(LoadsOf(t))

\* C28: while the index of a destination listing of n items is loaded, the
\* fetches made so far are at offsets 0, batch_size, 2 * batch_size, ... and
\* each returned a full batch; when the load has ended without a failure,
\* floor(n / batch_size) + 1 fetches were made, only the last of them
\* returned less than batch_size items, and the index holds exactly the
\* identifiers of the listing.
C28_IndexLoad ==
    \A t \in ItemTasks :
        LET ls == LoadsOf(t)
            n == Len(tidal[t])
        IN  /\ \A j \in 1..Len(ls) : ls[j].offset = (j - 1) * batch_size
            /\ ti <= 4 /\ cur = t /\ pc = "load" =>
                  /\ offset = Len(ls) * batch_size
                  /\ \A j \in 1..Len(ls) : ls[j].size = batch_size
            /\ JustLoaded(t) =>
                  /\ Len(ls) = (n \div batch_size) + 1
                  /\ \A j \in 1..Len(ls) : (ls[j].size < batch_size) = (j = Len(ls))
                  /\ existing = Range(tidal[t])
                  /\ Cardinality(existing) = n

\* The index of a listing of batch_size items has been loaded: by a full
\* batch and an empty one.
C28_Witness ==
    \E t \in ItemTasks :
        /\ JustLoaded(t)
        /\ Len(tidal[t]) = batch_size
        /\ Len(LoadsOf(t)) = 2 /\ LoadsOf(t)[2].size = 0

(***************************************************************************)
(* The source iterators over libraries of several pages: one collection    *)
(* type at a time, items with identifiers of their own, every seventh      *)
(* saved-tracks entry without a track, and a page request that may fail    *)
(* for the library of one page and one item.                               *)
(***************************************************************************)
MaxPages == 3

MaxPageFaults == 1

PagedSizes ==
    {0, 1} \cup {p * BATCH_SIZE : p \in 1..(MaxPages - 1)}
           \cup {p * BATCH_SIZE + 1 : p \in 1..(MaxPages - 1)}

PagedItems(t, m) == [j \in 1..m |-> IF t = "favorites" /\ j % 7 = 3 THEN 0 ELSE j]

PagedEnvs(t) ==
    {[playlists |-> << >>,
      playlistMisses |-> FALSE,
      lib |-> [u \in ItemTasks |->
                 IF u = t THEN Paginate(PagedItems(t, m), BATCH_SIZE) ELSE << >>],
      counts |-> [u \in ItemTasks |-> {IF u = t THEN m ELSE 0}],
      excs |-> AllExcs,
      maxFaults |-> IF m = BATCH_SIZE + 1 THEN MaxPageFaults ELSE 0] : m \in PagedSizes}

InitPages == \E t \in ItemTasks : InitRun({Only(t)}, PagedEnvs(t), {NoFavorites})

NextPages ==
    \/ SkipTask \/ StartTask \/ Complete
    \/ CountingProgress \/ Counted \/ LoadingProgress \/ LoadBatch
    \/ FetchPage \/ FetchFails
    \/ FavoritesItem \/ FavoritesDone \/ ItemProgress \/ ItemSearch \/ ItemsDone

SpecPages == InitPages /\ [][NextPages]_vars

\* The source items of t that have been handled, in the order handled.
Handled(t) ==
    LET os == SelectSeq(log, LAMBDA o : o.kind = "item" /\ o.task = t)
    IN  [j \in 1..Len(os) |-> os[j].k]

IsPrefix(s, r) == Len(s) <= Len(r) /\ \A j \in 1..Len(s) : s[j] = r[j]

\* The entries of the library of t that have a track, in source order.
WithTrack(t) == SelectSeq(Concat(env.lib[t]), LAMBDA k : t # "favorites" \/ k # 0)

\* C29: the items handled so far are, in source order and each once, the
\* first entries of the source library, without the saved-tracks entries
\* that have no track; the iterator asks for the pages one after the other,
\* each once and none beyond the last, so that its sequence is finite; and
\* a collection that has its done event has handled all of them.
C29_ReaderYieldsAllOnce ==
    /\ [](\A t \in ItemTasks :
            /\ IsPrefix(Handled(t), WithTrack(t))
            /\ Processing(t) => rd.page <= NumPages(t)
            /\ DoneOf(t) # {} => Handled(t) = WithTrack(t))
    /\ [][rd'.page # rd.page => rd'.page = rd.page + 1 \/ rd' = RdInit]_vars

\* The followed artists, served in three pages, have all been handled.
C29_Witness ==
    /\ DoneOf("artists") # {}
    /\ Len(env.lib["artists"]) = 3
    /\ Len(Handled("artists")) = 2 * BATCH_SIZE + 1

\* The exceptions that the source iterator of a collection raised after
\* items of the collection had been handled.
MidFetchFailures ==
    {n \in 1..Len(caught) : caught[n].at = "iter" /\ ItemLog(caught[n].task) # {}}

\* C30 as stated: after a page request has failed in the middle of a
\* collection, the result has an error marker for the collection.
C30_ErrorMarkerAlways ==
    \A n \in MidFetchFailures :
        /\ caught[n].task \in DOMAIN result
        /\ DOMAIN result[caught[n].task] = {"error"}

\* C30, amended: after a page request has failed in the middle of a
\* collection, the collection has no done event; when the exception is an
\* authentication failure the run has ended with auth_expired, without an
\* error event, a complete event or an entry for the collection in result;
\* otherwise the collection has exactly one error event and its entry in
\* result is the error marker alone; and the destination holds every
\* identifier added before the failure.
C30_FetchFailureEndsCollection ==
    \A n \in MidFetchFailures :
        LET t == caught[n].task
            e == caught[n].e
        IN  /\ DoneOf(t) = {}
            /\ IF is_auth_error(e)
               THEN /\ Cardinality(OfType("auth_expired")) = 1
                    /\ ErrorEventsOf(t) = {}
                    /\ OfType("complete") = {}
                    /\ t \notin DOMAIN result
                    /\ pc = "returned"
               ELSE /\ Cardinality(ErrorEventsOf(t)) = 1
                    /\ OfType("auth_expired") = {}
                    /\ t \in DOMAIN result /\ result[t] = [error |-> Str(e)]
            /\ \A m \in OkAdds(t) : log[m].id \in Range(tidal[t])

\* The request for the second page of the saved albums failed with an error
\* that is no authentication failure, after an album of the first page had
\* been added; the run has ended with complete.
C30_Witness ==
    \E n \in MidFetchFailures :
        /\ caught[n].task = "albums" /\ ~is_auth_error(caught[n].e)
        /\ OkAdds("albums") # {}
        /\ OfType("complete") # {}

(***************************************************************************)
(* The playlists block with a sync_playlist that may fail for every        *)
(* playlist, and the file NOT_FOUND_FILE as the runs of one server process *)
(* share it: the path is relative and the same for every run, so that the  *)
(* sync_playlist and the read_and_clear_not_found_file of another caller's *)
(* run act on the same file.  The other run acts while this one is         *)
(* suspended in an await or a yield.                                       *)
(***************************************************************************)
MaxSharedPlaylists == 2

MaxSharedFaults == 2

MaxOtherLines == 1

\* A playlist of the other caller, which this caller does not have.
OtherPlaylist == MaxSharedPlaylists + 1

SharedEnvs ==
    {[playlists |-> [j \in 1..n |-> j],
      playlistMisses |-> TRUE,
      lib |-> NoFavorites,
      counts |-> [u \in ItemTasks |-> {0}],
      excs |-> AllExcs,
      maxFaults |-> MaxSharedFaults] : n \in 0..MaxSharedPlaylists}

\* No await and no yield lies between the return of the last sync_playlist
\* and read_and_clear_not_found_file.
Suspended == ~(pc = "pl_loop" /\ i = total)

OtherLines == SelectSeq(nf_file, LAMBDA l : l[2] = OtherPlaylist)

\* sync_playlist of the other run leaves a line in the file.
OtherRunWrites ==
    /\ Suspended /\ Len(OtherLines) < MaxOtherLines
    /\ nf_file' = Append(nf_file, <<"missing of", OtherPlaylist>>)
    /\ UNCHANGED <<ctx, tidal, faults, pc, ti, events, result, locals>>

\* read_and_clear_not_found_file of the other run.
OtherRunHarvests ==
    /\ Suspended /\ nf_file # << >>
    /\ nf_file' = << >>
    /\ UNCHANGED <<ctx, tidal, faults, pc, ti, events, result, locals>>

InitShared == InitRun({Only("playlists")}, SharedEnvs, {NoFavorites})

NextShared ==
    \/ SkipTask \/ StartTask \/ Complete
    \/ PlaylistsFetched \/ PlaylistsFetchFails \/ PlaylistProgress \/ PlaylistSync
    \/ PlaylistsDone
    \/ OtherRunWrites \/ OtherRunHarvests

SpecShared == InitShared /\ [][NextShared]_vars

\* C33: no exception of a sync_playlist reaches the handler of the playlists
\* block; however many of them have failed, the loop goes on to the next
\* playlist, the block has no error event and the run is not truncated; and
\* once the block is over it has one progress event per source playlist and
\* its done event, whose synced is the number of source playlists.
C33_PlaylistFailureContained ==
    /\ \A n \in CaughtIn("playlists") : caught[n].at = "pl_fetch"
    /\ SwallowedAt("pl_sync") # {} =>
          /\ ErrorEventsOf("playlists") = {}
          /\ ~AuthTruncated
          /\ ti = 1 => pc \in {"pl_loop", "pl_sync"} /\ i >= Cardinality(SwallowedAt("pl_sync"))
          /\ ti > 1 =>
                /\ Cardinality(ProgressOf("playlists")) = Len(env.playlists)
                /\ Cardinality(DoneOf("playlists")) = 1
                /\ \A d \in DoneOf("playlists") :
                      events[d].result.synced = Len(env.playlists)

\* The sync_playlist of each of two playlists has failed, one of them with
\* "Token Expired"; the block has ended with done and synced = 2.
C33_Witness ==
    /\ Cardinality(SwallowedAt("pl_sync")) = 2
    /\ \E n \in SwallowedAt("pl_sync") : is_auth_error(log[n].e)
    /\ \E d \in DoneOf("playlists") : events[d].result.synced = 2
    /\ Returned

\* C34 as stated: the not-found list in the result of the playlists block
\* holds only lines that the sync_playlist calls of this run have written,
\* which are lines about this run's playlists.
C34_OwnEntriesOnly ==
    \A d \in DoneOf("playlists") :
        \A n \in 1..Len(events[d].result.not_found) :
            events[d].result.not_found[n][2] \in Range(env.playlists)

(***************************************************************************)
(* Properties of the run result.                                           *)
(***************************************************************************)
\* The collection types whose block has emitted its done or error event.
Ended == {t \in TaskSet : Terminals(t) # {}}

\* C35: a collection type whose done or error event has been emitted has
\* its entry in result, and no later step changes or removes that entry;
\* the result of a done event is the entry as it stands, the message of an
\* error event is the entry's error marker, and the payload of the complete
\* event holds that same entry.
C35_EntryFinal ==
    /\ [](\A t \in Ended :
            /\ t \in DOMAIN result
            /\ \A d \in DoneOf(t) : events[d].result = result[t]
            /\ \A j \in ErrorEventsOf(t) : result[t] = [error |-> events[j].error]
            /\ \A c \in OfType("complete") :
                  t \in DOMAIN events[c].result /\ events[c].result[t] = result[t])
    /\ [][\A t \in Ended : t \in DOMAIN result' /\ result'[t] = result[t]]_vars

\* The run has ended with complete after playlists ended with error and
\* favorites and albums with done, favorites with a track added and albums
\* with an album not found.
C35_Witness ==
    /\ OfType("complete") # {}
    /\ ErrorEventsOf("playlists") # {}
    /\ \E d \in DoneOf("favorites") : events[d].result.added = 1
    /\ \E d \in DoneOf("albums") : events[d].result.not_found # << >>

\* A collection result, or the error marker of a block that failed.
IsEntry(t, v) ==
    \/ DOMAIN v = {"error"}
    \/ t = "playlists" /\ DOMAIN v = {"synced", "not_found"}
    \/ t \in ItemTasks /\ DOMAIN v = {"added", "total", "not_found"}

\* C36: the payload of the complete event has an entry, a collection result
\* or an error marker, for each selected collection type and for no other;
\* its other keys are not_found_report, always, and
\* playlist_tracks_not_found, exactly when playlists ended with done.
C36_PayloadKeys ==
    \A c \in OfType("complete") :
        LET payload == events[c].result
        IN  /\ DOMAIN payload \cap TaskSet = {t \in TaskSet : sel[t]}
            /\ \A t \in DOMAIN payload \cap TaskSet : IsEntry(t, payload[t])
            /\ DOMAIN payload \ TaskSet =
                  {"not_found_report"} \cup
                  (IF DoneOf("playlists") # {} THEN {"playlist_tracks_not_found"} ELSE {})
            /\ DoneOf("playlists") # {} =>
                  payload["playlist_tracks_not_found"] = payload["playlists"].not_found

\* A run with playlists and favorites selected and albums not has ended with
\* complete; playlists ended with done and favorites with error.
C36_Witness ==
    /\ OfType("complete") # {}
    /\ sel["playlists"] /\ sel["favorites"] /\ ~sel["albums"]
    /\ DoneOf("playlists") # {} /\ ErrorEventsOf("favorites") # {}

(***************************************************************************)
(* Properties of the pending Tidal authorizations.                         *)
(***************************************************************************)
\* C38 as stated: an entry of the pending store is removed only by the
\* check that answers "success" for it, after which the caller's auth id
\* finds no entry; and a check answers "pending" only while the future of
\* the caller's device flow has not completed.
C38_PendingWhileFutureRuns ==
    [][/\ \A id \in DOMAIN web.pending :
              id \notin DOMAIN web'.pending =>
                  /\ Answers("/auth/tidal/check") /\ web'.resp.detail = "success"
                  /\ id = web.tidal_auth_id /\ ~HasPending(web')
       /\ Answers("/auth/tidal/check") /\ web'.resp.detail = "pending" =>
              HasPending(web) /\ web.pending[web.tidal_auth_id] = "waiting"]_vars

(***************************************************************************)
(* Properties of the event stream of GET /sync/stream.                     *)
(***************************************************************************)
\* The events sent with task "sync".
SyncErrors == {j \in 1..Len(web.sent) : "task" \in DOMAIN web.sent[j] /\ web.sent[j].task = "sync"}

\* C39: what GET /sync/stream has sent is at every moment a prefix of what
\* run_sync_streaming has yielded, event for event; when an exception has
\* left run_sync_streaming, the stream gets one more event, the error event
\* with task "sync" and the exception's message, after every event yielded
\* before; it holds no complete event; and the only step after that error
\* event is the end of the response.
C39_EscapeBecomesOneError ==
    /\ [](web.at = "/sync/stream" =>
            /\ ~ErrorSent => IsPrefix(web.sent, events) /\ SyncErrors = {}
            /\ ErrorSent =>
                  /\ web.sent = Append(events, EvError("sync", Str(log[Len(log)].e)))
                  /\ Cardinality(SyncErrors) = 1
                  /\ \A j \in 1..Len(web.sent) : web.sent[j].type # "complete")
    /\ [][web.at = "/sync/stream" /\ pc = "raised" =>
            IF ErrorSent THEN web'.at = "idle" /\ web'.resp.path = "/sync/stream"
            ELSE web'.sent = Append(web.sent, EvError("sync", Str(log[Len(log)].e)))]_vars

\* format_not_found_report raised after the favorites block had ended with
\* done: the stream holds the start and the done event of favorites and,
\* last, the error event with task "sync".
C39_Witness ==
    /\ web.at = "/sync/stream" /\ ErrorSent
    /\ \E j \in 1..Len(web.sent) : web.sent[j].type = "done"
    /\ web.sent[Len(web.sent)].type = "error" /\ web.sent[Len(web.sent)].task = "sync"
    /\ log[Len(log)].at = "select" /\ ti = 5

(***************************************************************************)
(* The favorites loop with asyncio.gather in steps of the event loop.  A   *)
(* task is [track, at, exc, found, nf_str, add_count]: a coroutine         *)
(* search_tidal_track(tidal_session, t, existing_tidal_ids), which is      *)
(* "created", "waiting" for the semaphore, "holding" it, or "done" with    *)
(* its result.  The event loop starts the tasks in the order of their      *)
(* creation, and a task runs until it awaits: search_tidal_track awaits    *)
(* nothing but the semaphore, tidal_session.search and add_track are       *)
(* plain calls.                                                            *)
(***************************************************************************)
MaxGatherItems == 5

MaxGatherFaults == 1

Task(k) ==
    [track |-> k, at |-> "created", exc |-> FALSE, found |-> FALSE, nf_str |-> "",
     add_count |-> 0]

\* tasks = [search_tidal_track(tidal_session, t, existing_tidal_ids) for t in batch]
TasksOf(b) == [j \in 1..Len(b) |-> Task(b[j])]

\* get_tidal_semaphore(): the permits of the semaphore, made on first use.
get_tidal_semaphore == IF tidal_semaphore = None THEN MAX_CONCURRENT_SEARCHES ELSE tidal_semaphore

\* BatchFull for a batch of one more track.
BatchFullAtFour(b) == Len(b) >= MAX_CONCURRENT_SEARCHES + 1

\* if len(batch) >= MAX_CONCURRENT_SEARCHES
BatchFull(b) == Len(b) >= MAX_CONCURRENT_SEARCHES

Gathering == pc \in {"gather", "gather_rest"}

\* The searches in flight: the tasks inside "async with get_tidal_semaphore()".
InFlight == {j \in 1..Len(tasks) : tasks[j].at = "holding"}

Ready == {j \in 1..Len(tasks) :
            \/ tasks[j].at = "created"
            \/ tasks[j].at = "waiting" /\ get_tidal_semaphore > 0}

\* favorites: one turn of "async for track in ...": the track joins the
\* batch, and for a full batch the tasks are made and gathered.
BatchItem ==
    /\ pc = "iter" /\ cur = "favorites" /\ rd.buf # << >>
    /\ TakeItem
    /\ LET b == Append(batch, Head(rd.buf))
       IN  /\ batch' = b
           /\ IF BatchFull(b)
              THEN tasks' = TasksOf(b) /\ pc' = "gather"
              ELSE UNCHANGED <<tasks, pc>>
    /\ UNCHANGED <<sel, env, run, first, log, spotify, web, loads, tidal_semaphore, caught>>
    /\ UNCHANGED <<tidal, nf_file, faults, ti, events, result,
                   total, i, existing, offset, added, not_found, processed, item>>

\* favorites: "if batch:" after the loop, with tracks left.
BatchRest ==
    /\ pc = "iter" /\ cur = "favorites" /\ Exhausted /\ batch # << >>
    /\ tasks' = TasksOf(batch)
    /\ pc' = "gather_rest"
    /\ UNCHANGED <<sel, env, run, first, log, spotify, web, loads, tidal_semaphore, caught>>
    /\ UNCHANGED <<tidal, nf_file, faults, ti, events, result, locals>>

\* The event loop runs the next task up to its first await: the query is
\* built, which may raise and end the task, and the semaphore is taken or
\* waited for.
TaskStart ==
    /\ Gathering /\ InFlight = {} /\ Ready # {}
    /\ LET j == CHOOSE n \in Ready : \A h \in Ready : n <= h
           permits == get_tidal_semaphore
       IN  \/ /\ CanFail
              /\ tasks[j].at = "created"
              /\ LET r == search_tidal_track(MatchState, tasks[j].track, "query")
                 IN  /\ SetMatchState(r.st)
                     /\ tasks' = [tasks EXCEPT ![j].at = "done", ![j].exc = r.exc]
              /\ UNCHANGED tidal_semaphore
           \/ /\ tidal_semaphore' = IF permits > 0 THEN permits - 1 ELSE permits
              /\ tasks' = [tasks EXCEPT ![j].at = IF permits > 0 THEN "holding" ELSE "waiting"]
              /\ UNCHANGED <<tidal, faults, log, existing, added, not_found>>
    /\ UNCHANGED <<sel, env, run, first, spotify, web, loads, caught>>
    /\ UNCHANGED <<nf_file, pc, ti, events, result, total, i, offset, processed, batch, rd, item>>

\* The task that holds the semaphore goes on without a break: the search,
\* the comparison, the add, the release of the semaphore and the return.
TaskSearch ==
    /\ Gathering
    /\ \E j \in InFlight, f \in ItemFaults \ {"query"} :
          LET r == search_tidal_track(MatchState, tasks[j].track, f)
          IN  /\ r.st.failed = NumFaults(<<f>>)
              /\ SetMatchState(r.st)
              /\ tasks' = [tasks EXCEPT ![j] = [@ EXCEPT !.at = "done", !.exc = r.exc,
                                                       !.found = r.found, !.nf_str = r.nf_str,
                                                       !.add_count = r.add_count]]
    /\ tidal_semaphore' = tidal_semaphore + 1
    /\ UNCHANGED <<sel, env, run, first, spotify, web, loads, caught>>
    /\ UNCHANGED <<nf_file, pc, ti, events, result, total, i, offset, processed, batch, rd, item>>

AllDone == \A j \in 1..Len(tasks) : tasks[j].at = "done"

\* "for r in results:": what the loop adds to added and to not_found.
Counted1(ts) == Cardinality({j \in 1..Len(ts) : ~ts[j].exc /\ ts[j].add_count = 1})

Missing(ts) ==
    LET nf == SelectSeq(ts, LAMBDA r : ~r.exc /\ ~r.found /\ r.nf_str # "")
    IN  [j \in 1..Len(nf) |-> nf[j].nf_str]

\* gather returns for a full batch: the results, processed, the progress
\* event.
Gathered ==
    /\ pc = "gather" /\ AllDone
    /\ added' = added + Counted1(tasks)
    /\ not_found' = not_found \o Missing(tasks)
    /\ processed' = processed + Len(batch)
    /\ batch' = << >>
    /\ tasks' = << >>
    /\ Emit(EvProgress(cur, ItemPct(cur, processed', total), <<"Processing", processed', total>>))
    /\ pc' = "iter"
    /\ UNCHANGED <<sel, env, run, first, log, spotify, web, loads, tidal_semaphore, caught>>
    /\ UNCHANGED <<tidal, nf_file, faults, ti, result, total, i, existing, offset, rd, item>>

\* gather returns for the remaining batch: the results, the result of the
\* collection and the done event.
GatheredRest ==
    /\ pc = "gather_rest" /\ AllDone
    /\ added' = added + Counted1(tasks)
    /\ not_found' = not_found \o Missing(tasks)
    /\ processed' = processed + Len(batch)
    /\ tasks' = << >>
    /\ result' = Put(result, cur, [added |-> added', total |-> total, not_found |-> not_found'])
    /\ Emit(EvDone(cur, result'[cur]))
    /\ pc' = "select"
    /\ ti' = ti + 1
    /\ UNCHANGED <<sel, env, run, first, log, spotify, web, loads, tidal_semaphore, caught>>
    /\ UNCHANGED <<tidal, nf_file, faults, total, i, existing, offset, batch, rd, item>>

\* "if batch:" with no track left: the result and the done event.
NoRest == batch = << >> /\ FavoritesDone

GatherEnvs ==
    {[playlists |-> << >>,
      playlistMisses |-> FALSE,
      lib |-> [u \in ItemTasks |->
                 IF u = "favorites" THEN Paginate(SourceItems(u, m), BATCH_SIZE) ELSE << >>],
      counts |-> [u \in ItemTasks |-> {IF u = "favorites" THEN m ELSE 0}],
      excs |-> AllExcs,
      maxFaults |-> MaxGatherFaults] : m \in 0..MaxGatherItems}

InitGather == InitRun({Only("favorites")}, GatherEnvs, TwiceTidals("favorites"))

NextGather ==
    \/ SkipTask \/ StartTask \/ Complete
    \/ CountingProgress \/ Counted \/ LoadingProgress \/ LoadBatch
    \/ FetchPage
    \/ BatchItem \/ BatchRest \/ TaskStart \/ TaskSearch \/ Gathered \/ GatheredRest \/ NoRest

SpecGather == InitGather /\ [][NextGather]_vars

\* C31: the searches in flight are never more than MAX_CONCURRENT_SEARCHES,
\* and they are the permits taken from the semaphore; a gathered batch has
\* at most MAX_CONCURRENT_SEARCHES tracks; a search is in flight only inside
\* a gather of the favorites block, so never during the counting, the index
\* loading or the writing of the result; and while a gather is under way
\* no event is emitted and the position of the generator stays.
C31_BoundedConcurrency ==
    /\ [](/\ Cardinality(InFlight) <= MAX_CONCURRENT_SEARCHES
          /\ tidal_semaphore # None =>
                tidal_semaphore + Cardinality(InFlight) = MAX_CONCURRENT_SEARCHES
          /\ Len(tasks) <= MAX_CONCURRENT_SEARCHES
          /\ tasks # << >> =>
                /\ Gathering /\ cur = "favorites" /\ Len(tasks) = Len(batch)
                /\ \A j \in 1..Len(tasks) : tasks[j].track = batch[j]
          /\ ~Gathering => tasks = << >>)
    /\ [][InFlight # {} => UNCHANGED <<pc, events, result, total, offset, processed>>]_vars

\* A batch of three tracks has been processed, and the only track of the
\* remaining batch is being searched.
C31_Witness ==
    /\ pc = "gather_rest" /\ Len(tasks) = 1 /\ InFlight = {1}
    /\ processed = MAX_CONCURRENT_SEARCHES
    /\ tidal_semaphore = MAX_CONCURRENT_SEARCHES - 1

(***************************************************************************)
(* Properties of the classification of the source items.                   *)
(***************************************************************************)
\* The items of t whose task or loop body ended in an exception before the
\* search.
Unsearched(t) == {n \in ItemLog(t) : log[n].f = "query"}

\* C32 as stated: when favorites, albums or artists has ended with done,
\* every item the source iterator yielded has one outcome, which is newly
\* added (counted in added), matched or already present, or not found
\* (listed in not_found); so added and not_found together never exceed the
\* items yielded.
C32_EveryItemClassified ==
    \A t \in ItemTasks : \A d \in DoneOf(t) :
        LET r == events[d].result
            newly == {n \in ItemLog(t) : log[n].ok}
            matched == {n \in ItemLog(t) : log[n].id # 0 /\ ~log[n].ok}
            missing == {n \in ItemLog(t) : log[n].id = 0}
        IN  /\ Cardinality(ItemLog(t)) = Len(SourceYield(t))
            /\ r.added = Cardinality(newly)
            /\ Len(r.not_found) = Cardinality(missing)
            /\ r.added + Len(r.not_found) <= Len(SourceYield(t))

(***************************************************************************)
(* Termination.  One collection type at a time, over source libraries of   *)
(* up to MaxPages pages and destinations of up to a full batch, with       *)
(* failures.  The event loop resumes the generator after each await and    *)
(* each yield as long as the consumer iterates, and every call on a        *)
(* service returns or raises: a step that stays possible is taken.  The    *)
(* steps that emit a computed percent are possible exactly when their loop *)
(* has an item at hand (CanReport), which states their fairness without    *)
(* evaluating the percent.                                                 *)
(***************************************************************************)
InitLive ==
    \E t \in TaskSet :
        InitRun({Only(t)}, IF t = "playlists" THEN SharedEnvs ELSE PagedEnvs(t), OneTidals(t))

\* The steps that emit a progress event with a computed percent.
Reporting == FavoritesItem \/ ItemProgress \/ PlaylistProgress

\* The other steps.
Paced ==
    \/ SkipTask \/ StartTask \/ Complete
    \/ PlaylistsFetched \/ PlaylistsFetchFails \/ PlaylistSync \/ PlaylistsDone
    \/ CountingProgress \/ Counted \/ CountFails \/ LoadingProgress \/ LoadBatch
    \/ LoadFails
    \/ FetchPage \/ FetchFails
    \/ FavoritesDone \/ ItemSearch \/ ItemQueryFails \/ ItemsDone

\* A loop of a block has its next playlist or item at hand.
CanReport == (pc = "pl_loop" /\ i < total) \/ (pc = "iter" /\ rd.buf # << >>)

NextLive == Paced \/ Reporting

Fairness == WF_vars(Paced) /\ ([]<>~CanReport \/ []<><<Reporting>>_vars)

SpecLive == InitLive /\ [][NextLive]_vars /\ Fairness

\* C37: every run comes to its end, and at its end the last event emitted
\* is complete or auth_expired; after the end no event is emitted.
C37_RunTerminates ==
    /\ <>(Returned /\ events # << >> /\ LastEvent.type \in {"complete", "auth_expired"})
    /\ [][Returned => UNCHANGED events]_vars

\* A run over the followed artists has ended with complete after asking for
\* three pages with the cursor, and the index had been loaded in two
\* batches.
C37_Witness ==
    /\ Returned /\ LastEvent.type = "complete"
    /\ sel["artists"] /\ rd.page = MaxPages
    /\ Len(LoadsOf("artists")) = 2
====
